---------------------------- MODULE Spec2Model ----------------------------
(***************************************************************************)
(* Verification model of the kalshi_mm market maker: the position ledger   *)
(* and fill poller (src/position_manager.py), the quoter (src/quoter.py)   *)
(* and the trading control loop (src/market_maker.py), against an exchange *)
(* that rests, fills and cancels this account's orders.                    *)
(*                                                                         *)
(* Prices are integer cents.  Python floats that carry halves or averages  *)
(* are kept exact: a midpoint as twice its value, avg_entry_price as a     *)
(* reduced fraction [num, den].                                            *)
(***************************************************************************)
EXTENDS Integers, Sequences, FiniteSets, TLC

VARIABLES
    config,        \* the attributes of src/config.py, read at call time
    positions,     \* PositionManager._positions : ticker -> TrackedPosition
    last_fill_id,  \* PositionManager._last_fill_id
    last_fill_ts,  \* PositionManager._last_fill_ts
    state,         \* Quoter.state : QuoteState
    orders,        \* exchange: the resting orders of this account
    fills,         \* exchange: the account's fill records, newest first
    next_order_id, \* exchange: the id the next accepted order gets
    loop_pc,       \* MarketMakerBot.run: the await the control loop is parked at
    tick,          \* MarketMakerBot.run / Quoter.place_quotes: locals of the tick
    poll_pc,       \* PositionManager.poll_fills: the await the poller is parked at
    poll_resp,     \* the get_fills response the poller is about to iterate
    apply_log,     \* history: the fill_ids handed to _apply_fill, in order
    inflight,      \* the order request in flight, with the ledger it was gated on
    call,          \* a direct call of one pure function: arguments and result
    elapsed        \* MarketMakerBot.run: time.time() - start_time (seconds) at
                   \* the next test of the while condition

vars == <<config, positions, last_fill_id, last_fill_ts, state, orders, fills,
          next_order_id, loop_pc, tick, poll_pc, poll_resp, apply_log,
          inflight, call, elapsed>>

sysvars == <<positions, last_fill_id, last_fill_ts, state, orders, fills,
             next_order_id, loop_pc, tick, poll_pc, poll_resp, apply_log,
             inflight, elapsed>>

-----------------------------------------------------------------------------
(* Python values *)

\* Python's None in an Optional[int] / Optional[str] field.
None == -1

Abs(x) == IF x < 0 THEN -x ELSE x
Min(a, b) == IF a <= b THEN a ELSE b
Max(a, b) == IF a >= b THEN a ELSE b

\* int(x) of the float n2/2: truncation toward zero.
IntOfHalves(n2) == IF n2 >= 0 THEN n2 \div 2 ELSE -((-n2) \div 2)

\* round(x) of the float n2/2: Python 3 rounds a half to the even neighbour.
RoundOfHalves(n2) ==
    LET lo == n2 \div 2     \* floor
    IN  IF n2 % 2 = 0 THEN lo
        ELSE IF lo % 2 = 0 THEN lo ELSE lo + 1

RECURSIVE Gcd(_, _)
Gcd(a, b) == IF b = 0 THEN a ELSE Gcd(b, a % b)

\* The rational n/d (d > 0) in lowest terms.
Frac(n, d) == LET g == Gcd(Abs(n), d) IN [num |-> n \div g, den |-> d \div g]

\* int(x) of the rational n/d (d > 0): truncation toward zero.
IntOfFrac(n, d) == IF n >= 0 THEN n \div d ELSE -((-n) \div d)

-----------------------------------------------------------------------------
(* src/config.py *)

MARKET_TICKER == "KXHIGHTSFO-26JAN30-B63.5"
OTHER_TICKER == "OTHER"
Tickers == {MARKET_TICKER, OTHER_TICKER}

DefaultConfig ==
    [ MAX_POSITION_SIZE           |-> 30,
      MAX_TOTAL_EXPOSURE          |-> 5,
      SPREAD_WIDTH                |-> 4,
      QUOTE_SIZE                  |-> 1,
      REQUOTE_THRESHOLD           |-> 1,
      INVENTORY_SKEW_PER_CONTRACT |-> 1,
      FILL_POLL_LIMIT             |-> 50,
      LOOP_INTERVAL               |-> 5,
      MAX_RUNTIME                 |-> 1000 ]

-----------------------------------------------------------------------------
(* src/quoter.py : QuoteState and the pure calculations *)

QuoteState(bid_order_id, ask_order_id, bid_price, ask_price, last_midpoint2) ==
    [ bid_order_id   |-> bid_order_id,
      ask_order_id   |-> ask_order_id,
      bid_price      |-> bid_price,
      ask_price      |-> ask_price,
      last_midpoint2 |-> last_midpoint2 ]   \* twice last_midpoint

EmptyQuoteState == QuoteState(None, None, None, None, None)

\* Quoter.calculate_quotes -> <<bid_price, ask_price>>
calculate_quotes_nofallback(best_bid, best_ask, inventory_skew) ==
    LET midpoint2 == best_bid + best_ask
        raw_bid2  == midpoint2 - config.SPREAD_WIDTH - 2 * inventory_skew
        raw_ask2  == midpoint2 + config.SPREAD_WIDTH - 2 * inventory_skew
    IN  << Max(1, Min(99, RoundOfHalves(raw_bid2))),
           Max(1, Min(99, RoundOfHalves(raw_ask2))) >>

calculate_quotes_touch(best_bid, best_ask, inventory_skew) ==
    LET midpoint2 == best_bid + best_ask
        raw_bid2  == midpoint2 - config.SPREAD_WIDTH - 2 * inventory_skew
        raw_ask2  == midpoint2 + config.SPREAD_WIDTH - 2 * inventory_skew
        bid_price == Min(best_bid, Max(1, Min(99, RoundOfHalves(raw_bid2))))
        ask_price == Max(best_ask, Max(1, Min(99, RoundOfHalves(raw_ask2))))
    IN  IF bid_price >= ask_price
        THEN << IntOfHalves(midpoint2) - 1, IntOfHalves(midpoint2) + 1 >>
        ELSE << bid_price, ask_price >>

calculate_quotes(best_bid, best_ask, inventory_skew) ==
    LET midpoint2 == best_bid + best_ask          \* twice midpoint
        \* raw prices, doubled: midpoint -/+ SPREAD_WIDTH/2 - skew
        raw_bid2  == midpoint2 - config.SPREAD_WIDTH - 2 * inventory_skew
        raw_ask2  == midpoint2 + config.SPREAD_WIDTH - 2 * inventory_skew
        \* round, then clamp to 1..99
        bid_price == Max(1, Min(99, RoundOfHalves(raw_bid2)))
        ask_price == Max(1, Min(99, RoundOfHalves(raw_ask2)))
    IN  \* never cross ourselves
        IF bid_price >= ask_price
        THEN << IntOfHalves(midpoint2) - 1, IntOfHalves(midpoint2) + 1 >>
        ELSE << bid_price, ask_price >>

-----------------------------------------------------------------------------
(* src/models.py : TrackedPosition *)

TrackedPosition(position, avg_entry_price, realized_pnl_cents, fill_id) ==
    [ position           |-> position,
      avg_entry_price    |-> avg_entry_price,     \* reduced fraction
      realized_pnl_cents |-> realized_pnl_cents,
      last_fill_id       |-> fill_id ]

\* TrackedPosition(ticker=ticker): the zero position get_position creates.
ZeroPosition == TrackedPosition(0, Frac(0, 1), 0, None)


\* TrackedPosition.exposure_cents: int(contracts * avg) or
\* int(contracts * (100 - avg)).
exposure_cents(p) ==
    IF p.position = 0 THEN 0
    ELSE IF p.position > 0
         THEN IntOfFrac(Abs(p.position) * p.avg_entry_price.num,
                        p.avg_entry_price.den)
         ELSE IntOfFrac(Abs(p.position) * (100 * p.avg_entry_price.den
                                             - p.avg_entry_price.num),
                        p.avg_entry_price.den)

-----------------------------------------------------------------------------
(* src/position_manager.py : the risk gate *)

RECURSIVE SumExposure(_, _)
\* sum(p.exposure_cents for t, p in pos.items() if t in S)
SumExposure(pos, S) ==
    IF S = {} THEN 0
    ELSE LET t == CHOOSE x \in S : TRUE
         IN  exposure_cents(pos[t]) + SumExposure(pos, S \ {t})

\* can_add_position without the position-size check.
can_add_position_nocap(ticker, side, contracts, price_cents) ==
    LET current_pos   == positions[ticker]
        delta         == IF side = "yes" THEN contracts ELSE -contracts
        new_position  == current_pos.position + delta
        new_contracts == Abs(new_position)
        new_exposure_cents ==
            IF new_position > 0 THEN new_contracts * price_cents
            ELSE IF new_position < 0 THEN new_contracts * (100 - price_cents)
            ELSE 0
        other_exposure == SumExposure(positions, Tickers \ {ticker})
    IN  IF /\ current_pos.position * delta < 0
           /\ new_contracts < Abs(current_pos.position)
        THEN <<TRUE, "Risk-reducing order allowed">>
        ELSE IF other_exposure + new_exposure_cents
                   > config.MAX_TOTAL_EXPOSURE * 100
        THEN <<FALSE, "Exceeds max total exposure">>
        ELSE <<TRUE, "OK">>

\* can_add_position without the exposure check.
can_add_position_noexposure(ticker, side, contracts, price_cents) ==
    LET current_pos   == positions[ticker]
        delta         == IF side = "yes" THEN contracts ELSE -contracts
        new_contracts == Abs(current_pos.position + delta)
    IN  IF /\ current_pos.position * delta < 0
           /\ new_contracts < Abs(current_pos.position)
        THEN <<TRUE, "Risk-reducing order allowed">>
        ELSE IF new_contracts > config.MAX_POSITION_SIZE
        THEN <<FALSE, "Exceeds max position size">>
        ELSE <<TRUE, "OK">>

\* can_add_position without the risk-reducing override.
can_add_position_nooverride(ticker, side, contracts, price_cents) ==
    LET current_pos   == positions[ticker]
        delta         == IF side = "yes" THEN contracts ELSE -contracts
        new_position  == current_pos.position + delta
        new_contracts == Abs(new_position)
        new_exposure_cents ==
            IF new_position > 0 THEN new_contracts * price_cents
            ELSE IF new_position < 0 THEN new_contracts * (100 - price_cents)
            ELSE 0
        other_exposure == SumExposure(positions, Tickers \ {ticker})
    IN  IF new_contracts > config.MAX_POSITION_SIZE
        THEN <<FALSE, "Exceeds max position size">>
        ELSE IF other_exposure + new_exposure_cents
                   > config.MAX_TOTAL_EXPOSURE * 100
        THEN <<FALSE, "Exceeds max total exposure">>
        ELSE <<TRUE, "OK">>

\* PositionManager.can_add_position -> <<allowed, reason>>
can_add_position(ticker, side, contracts, price_cents) ==
    LET current_pos   == positions[ticker]
        delta         == IF side = "yes" THEN contracts ELSE -contracts
        new_position  == current_pos.position + delta
        new_contracts == Abs(new_position)
        new_exposure_cents ==
            IF new_position > 0 THEN new_contracts * price_cents
            ELSE IF new_position < 0 THEN new_contracts * (100 - price_cents)
            ELSE 0
        other_exposure      == SumExposure(positions, Tickers \ {ticker})
        total_new_exposure  == other_exposure + new_exposure_cents
        max_exposure_cents  == config.MAX_TOTAL_EXPOSURE * 100
    IN  IF /\ current_pos.position > 0
           /\ side = "no"
           /\ new_contracts < Abs(current_pos.position)
        THEN <<TRUE, "Risk-reducing order allowed">>
        ELSE IF /\ current_pos.position < 0
                /\ side = "yes"
                /\ new_contracts < Abs(current_pos.position)
        THEN <<TRUE, "Risk-reducing order allowed">>
        ELSE IF new_contracts > config.MAX_POSITION_SIZE
        THEN <<FALSE, "Exceeds max position size">>
        ELSE IF total_new_exposure > max_exposure_cents
        THEN <<FALSE, "Exceeds max total exposure">>
        ELSE <<TRUE, "OK">>

\* MarketMakerBot.can_place_order: side.lower() == "yes" selects Side.YES.
can_place_order(ticker, side, contracts, price_cents) ==
    can_add_position(ticker, IF side = "yes" THEN "yes" ELSE "no",
                     contracts, price_cents)

\* MarketMakerBot.place_order, the limit check before the order goes out:
\* TRUE when the order is handed to the order manager, FALSE when
\* ValueError("Order blocked by limits") is raised instead.
place_order_allowed(action, side, count, price_cents, ticker) ==
    LET exposure_side  == IF action = "buy" THEN side
                          ELSE IF side = "yes" THEN "no" ELSE "yes"
        exposure_price == IF action = "buy" THEN price_cents
                          ELSE 100 - price_cents
    IN  can_place_order(ticker, exposure_side, count, exposure_price)[1]

-----------------------------------------------------------------------------
(* src/position_manager.py : the ledger *)

\* A fill record of the exchange.  parse_ok says whether Fill(**fill_data)
\* validates; created_ts is int(created_time.timestamp()).
FillRecord(fill_id, order_id, ticker, side, action, count, yes_price, created_ts, parse_ok) ==
    [ fill_id |-> fill_id, order_id |-> order_id, ticker |-> ticker,
      side |-> side, action |-> action, count |-> count,
      yes_price |-> yes_price, created_ts |-> created_ts,
      parse_ok |-> parse_ok ]

\* _apply_fill taking the sign from the reported side instead of the action.
apply_fill_by_side(pos, fill) ==
    LET delta == IF fill.side = "yes" THEN fill.count ELSE -fill.count
    IN  TrackedPosition(pos.position + delta, pos.avg_entry_price,
                        pos.realized_pnl_cents, fill.fill_id)

\* PositionManager._apply_fill, the position update: the TrackedPosition
\* of fill.ticker after the fill.
apply_fill(pos, fill) ==
    LET delta        == IF fill.action = "buy" THEN fill.count ELSE -fill.count
        old_position == pos.position
        new_position == old_position + delta
        avg          == pos.avg_entry_price
        opening      == old_position = 0 \/ old_position * delta > 0
        \* opening or adding: (old_cost + new_cost) / total_contracts
        total_contracts == Abs(new_position)
        cost_num     == Abs(old_position) * avg.num
                        + fill.count * fill.yes_price * avg.den
        \* reducing or closing: int(realized)
        contracts_closed == Min(Abs(old_position), Abs(delta))
        realized_num ==
            IF old_position > 0
            THEN (fill.yes_price * avg.den - avg.num) * contracts_closed
            ELSE (avg.num - fill.yes_price * avg.den) * contracts_closed
    IN  TrackedPosition(
            new_position,
            IF opening /\ total_contracts > 0
            THEN Frac(cost_num, avg.den * total_contracts)
            ELSE avg,
            IF opening THEN pos.realized_pnl_cents
            ELSE pos.realized_pnl_cents + IntOfFrac(realized_num, avg.den),
            fill.fill_id)

\* Quoter.on_fill: the QuoteState after the callback.
\* on_fill that drops both legs when either one is filled.
on_fill_both(st, fill) ==
    IF fill.order_id = st.bid_order_id \/ fill.order_id = st.ask_order_id
    THEN [st EXCEPT !.bid_order_id = None, !.bid_price = None,
                    !.ask_order_id = None, !.ask_price = None]
    ELSE st

on_fill(st, fill) ==
    IF fill.order_id = st.bid_order_id
    THEN [st EXCEPT !.bid_order_id = None, !.bid_price = None]
    ELSE IF fill.order_id = st.ask_order_id
    THEN [st EXCEPT !.ask_order_id = None, !.ask_price = None]
    ELSE st

\* Bound of the model: the poller stops once this many fills are applied.
MaxApplied == 4

\* The subscribers, in the order __aenter__ registers them.
fill_callbacks == << "Quoter.on_fill", "MarketMakerBot._on_fill_for_ui" >>

\* What happens for one fill, each event with the net position of the
\* fill's ticker at that moment.
FillEvent(event, fill, position) ==
    [ event |-> event, fill_id |-> fill.fill_id, position |-> position ]

\* _apply_fill that notifies the subscribers before it updates the position.
apply_fill_events_early(fill, before, after) ==
    [ k \in 1..Len(fill_callbacks) |->
          FillEvent(fill_callbacks[k], fill, before.position) ]
    \o << FillEvent("_apply_fill", fill, after.position) >>

\* _apply_fill, the order of its effects: the position update, then
\* "Notify registered callbacks", each awaited in turn, its exceptions
\* caught.
apply_fill_events(fill, before, after) ==
    << FillEvent("_apply_fill", fill, after.position) >>
    \o [ k \in 1..Len(fill_callbacks) |->
             FillEvent(fill_callbacks[k], fill, after.position) ]

RECURSIVE poll_loop(_, _, _)
\* PositionManager.poll_fills, the loop over fills_data from record i on.
\* acc carries the ledger, the QuoteState (through the on_fill callback),
\* new_fills, whether Fill(**fill_data) raised, and the events so far.
poll_loop(fills_data, i, acc) ==
    IF i > Len(fills_data) THEN acc
    ELSE LET fill == fills_data[i]
         IN  IF ~fill.parse_ok
             THEN [acc EXCEPT !.raised = TRUE]
             ELSE IF last_fill_id # None /\ fill.fill_id = last_fill_id
             THEN acc
             ELSE LET before == acc.positions[fill.ticker]
                      after  == apply_fill(before, fill)
                  IN  poll_loop(fills_data, i + 1,
                          [ positions |-> [acc.positions EXCEPT
                                              ![fill.ticker] = after],
                            state     |-> on_fill(acc.state, fill),
                            new_fills |-> Append(acc.new_fills, fill),
                            raised    |-> FALSE,
                            events    |-> acc.events \o
                                apply_fill_events(fill, before, after) ])

\* The response of GET /portfolio/fills?min_ts&limit: the records at or
\* after min_ts, newest first, at most limit of them.
get_fills(min_ts, limit) ==
    LET kept == SelectSeq(fills, LAMBDA f : min_ts = None \/ f.created_ts >= min_ts)
    IN  SubSeq(kept, 1, Min(limit, Len(kept)))

-----------------------------------------------------------------------------
(* Fill poller: PositionManager._polling_loop / poll_fills *)

\* await self.client.get_fills(**params) returns.
PollFetch ==
    /\ poll_pc = "sleep"
    /\ Len(apply_log) < MaxApplied
    /\ poll_resp' = get_fills(IF last_fill_ts # None /\ last_fill_ts # 0
                              THEN last_fill_ts ELSE None,
                              config.FILL_POLL_LIMIT)
    /\ poll_pc' = "iterate"
    /\ UNCHANGED <<config, positions, last_fill_id, last_fill_ts, state, orders,
                   fills, next_order_id, loop_pc, tick, apply_log, inflight,
                   call, elapsed>>

\* The loop over the response, the watermark update and the return (the
\* balance refresh that follows changes nothing the ledger reads).
PollProcess ==
    /\ poll_pc = "iterate"
    /\ LET r == poll_loop(poll_resp, 1,
                    [ positions |-> positions, state |-> state,
                      new_fills |-> <<>>, raised |-> FALSE,
                      events |-> <<>> ])
       IN  /\ positions' = r.positions
           /\ state' = r.state
           /\ apply_log' = apply_log \o [k \in 1..Len(r.new_fills) |->
                                             r.new_fills[k].fill_id]
           /\ IF ~r.raised /\ r.new_fills # <<>>
              THEN /\ last_fill_id' = r.new_fills[1].fill_id
                   /\ last_fill_ts' = r.new_fills[1].created_ts
              ELSE UNCHANGED <<last_fill_id, last_fill_ts>>
    /\ poll_pc' = "sleep"
    /\ poll_resp' = <<>>
    /\ UNCHANGED <<config, orders, fills, next_order_id, loop_pc, tick,
                   inflight, call, elapsed>>

-----------------------------------------------------------------------------
(* src/quoter.py : the requote decision *)

has_active_quotes(st) == st.bid_order_id # None /\ st.ask_order_id # None

has_any_quotes(st) == st.bid_order_id # None \/ st.ask_order_id # None

\* should_requote that asks for new quotes only when no leg is left, and
\* compares the legs that are.
should_requote_any(st, best_bid, best_ask, inventory_skew) ==
    LET new == calculate_quotes(best_bid, best_ask, inventory_skew)
    IN  IF ~has_any_quotes(st)
        THEN <<TRUE, "No active quotes">>
        ELSE IF \/ st.bid_price # None /\ new[1] # st.bid_price
                \/ st.ask_price # None /\ new[2] # st.ask_price
        THEN <<TRUE, "Quotes changed">>
        ELSE IF st.bid_price # None /\ st.bid_price > best_bid
        THEN <<TRUE, "Bid through market">>
        ELSE IF st.ask_price # None /\ st.ask_price < best_ask
        THEN <<TRUE, "Ask through market">>
        ELSE IF /\ st.bid_price # None
                /\ st.ask_price # None
                /\ st.bid_price >= st.ask_price
        THEN <<TRUE, "Quotes crossed">>
        ELSE <<FALSE, "Quotes OK">>

\* Quoter.should_requote -> <<should_requote, reason>>
\* should_requote without the two through-the-market tests.
should_requote_nothrough(st, best_bid, best_ask, inventory_skew) ==
    LET new == calculate_quotes(best_bid, best_ask, inventory_skew)
    IN  IF ~has_active_quotes(st)
        THEN <<TRUE, "No active quotes">>
        ELSE IF new[1] # st.bid_price \/ new[2] # st.ask_price
        THEN <<TRUE, "Quotes changed">>
        ELSE IF /\ st.bid_price # None
                /\ st.ask_price # None
                /\ st.bid_price >= st.ask_price
        THEN <<TRUE, "Quotes crossed">>
        ELSE <<FALSE, "Quotes OK">>

should_requote(st, best_bid, best_ask, inventory_skew) ==
    LET new == calculate_quotes(best_bid, best_ask, inventory_skew)
    IN  IF ~has_active_quotes(st)
        THEN <<TRUE, "No active quotes">>
        ELSE IF new[1] # st.bid_price \/ new[2] # st.ask_price
        THEN <<TRUE, "Quotes changed">>
        ELSE IF st.bid_price # None /\ st.bid_price > best_bid
        THEN <<TRUE, "Bid through market">>
        ELSE IF st.ask_price # None /\ st.ask_price < best_ask
        THEN <<TRUE, "Ask through market">>
        ELSE IF /\ st.bid_price # None
                /\ st.ask_price # None
                /\ st.bid_price >= st.ask_price
        THEN <<TRUE, "Quotes crossed">>
        ELSE <<FALSE, "Quotes OK">>

-----------------------------------------------------------------------------
(* The exchange, as the order manager reaches it *)

\* Bounds of the model.
MaxOrders == 3      \* orders the exchange accepts in one run
MaxFills == 2       \* fills of this run's orders

\* A resting limit order of this account (count is config.QUOTE_SIZE).
Order(order_id, action, yes_price) ==
    [order_id |-> order_id, action |-> action, yes_price |-> yes_price]

\* OrderManager.place_order -> order_id: the exchange rests the order and
\* answers with its id.
exchange_place(action, yes_price) ==
    /\ yes_price \in 1..99          \* the exchange takes prices of 1..99 cents
    /\ next_order_id <= MaxOrders
    /\ orders' = orders \cup {Order(next_order_id, action, yes_price)}
    /\ next_order_id' = next_order_id + 1

\* OrderManager.cancel_all(order_ids) / cancel_order(order_id) succeeding:
\* none of the ids rests afterwards.
exchange_cancel(order_ids) ==
    /\ orders' = {o \in orders : o.order_id \notin order_ids}
    /\ UNCHANGED next_order_id

\* A request that raises (transport error, rejection): the exchange is
\* left as it was.
exchange_error == UNCHANGED <<orders, next_order_id>>

\* A counterparty takes a resting order of this account: the order
\* executes in full and the exchange prepends the fill record.  The
\* reported side is the counterparty's book view (src/position_manager.py,
\* comment in _apply_fill): "no" for a sold YES, "yes" for a bought one.
ExchangeFill ==
    /\ Len(SelectSeq(fills, LAMBDA f : f.order_id # 0)) < MaxFills
    /\ \E o \in orders :
          LET ts == IF fills = <<>> THEN 1 ELSE fills[1].created_ts + 1
          IN  /\ orders' = orders \ {o}
              /\ fills' = << FillRecord(Len(fills) + 1, o.order_id,
                                        MARKET_TICKER,
                                        IF o.action = "buy" THEN "yes" ELSE "no",
                                        o.action, config.QUOTE_SIZE,
                                        o.yes_price, ts, TRUE) >> \o fills
    /\ UNCHANGED <<config, positions, last_fill_id, last_fill_ts, state,
                   next_order_id, loop_pc, tick, poll_pc, poll_resp,
                   apply_log, inflight, call, elapsed>>

-----------------------------------------------------------------------------
(* src/quoter.py : place_quotes, cancel_quotes, update_quotes, run as the   *)
(* control loop executes them, one action per await                         *)

NoRequest == [ side |-> "", contracts |-> 0, price_cents |-> 0,
               position |-> 0, other_exposure |-> 0 ]

\* The order request going out, with what the risk gate was asked and the
\* ledger it saw.
Request(side, contracts, price_cents) ==
    [ side |-> side, contracts |-> contracts, price_cents |-> price_cents,
      position |-> positions[MARKET_TICKER].position,
      other_exposure |-> SumExposure(positions, Tickers \ {MARKET_TICKER}) ]

IdleTick == [ best_bid |-> None, best_ask |-> None, status |-> "",
              inventory_skew |-> 0, bid_price |-> None, ask_price |-> None,
              bid_order_id |-> None, ask_order_id |-> None,
              order_ids |-> {} ]

\* The control loop suspends at an await of place_quotes.
Park(pc, t, st, req) ==
    /\ loop_pc' = pc
    /\ tick' = t
    /\ state' = st
    /\ inflight' = req

\* RecordQuotes that stores the calculated prices of both legs, placed or
\* not.
RecordQuotes_both_prices(t) ==
    /\ state' = QuoteState(
                    t.bid_order_id, t.ask_order_id,
                    t.bid_price, t.ask_price,
                    t.best_bid + t.best_ask)
    /\ loop_pc' = "sleep"
    /\ tick' = IdleTick
    /\ inflight' = NoRequest

\* place_quotes, "Update state" and return; the tick ends (UI callback
\* and sleep).
RecordQuotes(t) ==
    /\ state' = QuoteState(
                    t.bid_order_id, t.ask_order_id,
                    IF t.bid_order_id # None THEN t.bid_price ELSE None,
                    IF t.ask_order_id # None THEN t.ask_price ELSE None,
                    t.best_bid + t.best_ask)
    /\ loop_pc' = "sleep"
    /\ tick' = IdleTick
    /\ inflight' = NoRequest

\* AfterAsk that lets a lone leg stand when the account is flat.
AfterAsk_flat(t, st) ==
    LET position == positions[MARKET_TICKER].position
    IN  IF t.bid_order_id # None /\ t.ask_order_id = None /\ position > 0
        THEN Park("cancel_lone_bid", t, st, NoRequest)
        ELSE IF t.ask_order_id # None /\ t.bid_order_id = None /\ position < 0
        THEN Park("cancel_lone_ask", t, st, NoRequest)
        ELSE RecordQuotes(t)

\* place_quotes from "Cancel lone order only if it adds risk" on.
AfterAsk(t, st) ==
    LET position == positions[MARKET_TICKER].position
    IN  IF t.bid_order_id # None /\ t.ask_order_id = None /\ position >= 0
        THEN Park("cancel_lone_bid", t, st, NoRequest)
        ELSE IF t.ask_order_id # None /\ t.bid_order_id = None /\ position <= 0
        THEN Park("cancel_lone_ask", t, st, NoRequest)
        ELSE RecordQuotes(t)

\* place_quotes from the ask's limit check on.
\* AfterBid that gives up the ask when the bid was not placed.
AfterBid_bid_first(t, st) ==
    IF /\ t.bid_order_id # None
       /\ can_place_order(MARKET_TICKER, "no", config.QUOTE_SIZE,
                          100 - t.ask_price)[1]
       /\ place_order_allowed("sell", "yes", config.QUOTE_SIZE, t.ask_price,
                              MARKET_TICKER)
    THEN Park("place_ask", t, st,
              Request("no", config.QUOTE_SIZE, 100 - t.ask_price))
    ELSE AfterAsk(t, st)

AfterBid(t, st) ==
    IF /\ can_place_order(MARKET_TICKER, "no", config.QUOTE_SIZE,
                          100 - t.ask_price)[1]
       /\ place_order_allowed("sell", "yes", config.QUOTE_SIZE, t.ask_price,
                              MARKET_TICKER)
    THEN Park("place_ask", t, st,
              Request("no", config.QUOTE_SIZE, 100 - t.ask_price))
    ELSE AfterAsk(t, st)

\* place_quotes from its start to its first await.
place_quotes(t0, st) ==
    LET q == calculate_quotes(t0.best_bid, t0.best_ask, t0.inventory_skew)
        t == [t0 EXCEPT !.bid_price = q[1], !.ask_price = q[2],
                        !.bid_order_id = None, !.ask_order_id = None,
                        !.order_ids = {}]
    IN  IF /\ can_place_order(MARKET_TICKER, "yes", config.QUOTE_SIZE,
                              t.bid_price)[1]
           /\ place_order_allowed("buy", "yes", config.QUOTE_SIZE, t.bid_price,
                                  MARKET_TICKER)
        THEN Park("place_bid", t, st,
                  Request("yes", config.QUOTE_SIZE, t.bid_price))
        ELSE AfterBid(t, st)

\* cancel_quotes: the ids it collects from the QuoteState.
quote_order_ids(st) ==
    {st.bid_order_id, st.ask_order_id} \ {None}

\* cancel_quotes after cancel_all_orders returned: "Success - clear state".
cancel_quotes_ok(st) == EmptyQuoteState

\* cancel_quotes_failed that clears whatever force_clear says.
cancel_quotes_failed_clear(st, force_clear) == EmptyQuoteState

\* cancel_quotes_failed that keeps the state whatever force_clear says.
cancel_quotes_failed_keep(st, force_clear) == st

\* cancel_quotes after cancel_all_orders raised: cleared only on force_clear.
cancel_quotes_failed(st, force_clear) ==
    IF force_clear THEN EmptyQuoteState ELSE st

\* Market snapshots GET /markets/{ticker} may answer with; yes_bid is 0
\* when nobody bids.
Markets == { <<0, 12>>, <<10, 12>>, <<45, 55>> }
Statuses == { "active", "closed" }

\* run, "Only quote if market is active and has valid prices": update_quotes
\* that does not ask should_requote.
run_decision_always(st, market_status, best_bid, best_ask, inventory_skew) ==
    IF market_status = "active" /\ best_bid > 0 /\ best_ask > 0
    THEN "update_quotes"
    ELSE IF has_any_quotes(st) THEN "cancel_quotes" ELSE "none"

\* run, "Only quote if market is active and has valid prices": the quoter
\* call the iteration makes for a snapshot.
run_decision(st, market_status, best_bid, best_ask, inventory_skew) ==
    IF market_status = "active" /\ best_bid > 0 /\ best_ask > 0
    THEN IF should_requote(st, best_bid, best_ask, inventory_skew)[1]
         THEN "update_quotes"
         ELSE "none"
    ELSE IF has_any_quotes(st) THEN "cancel_quotes" ELSE "none"

\* run, one iteration from the answers of get_market and get_orderbook
\* (any snapshot the exchange may hold) through get_position() to the
\* first await of the quoter, or to the sleep when nothing is to be sent.
run_iteration ==
    /\ loop_pc = "sleep"
    /\ next_order_id <= MaxOrders
    /\ \E m \in Markets, market_status \in Statuses :
          LET best_bid == m[1]
              best_ask == m[2]
              position == positions[MARKET_TICKER]
              inventory_skew ==
                  position.position * config.INVENTORY_SKEW_PER_CONTRACT
              t == [IdleTick EXCEPT !.best_bid = best_bid,
                                    !.best_ask = best_ask,
                                    !.status = market_status,
                                    !.inventory_skew = inventory_skew,
                                    !.order_ids = quote_order_ids(state)]
              decision == run_decision(state, market_status, best_bid,
                                       best_ask, inventory_skew)
          IN  IF decision = "update_quotes"
              THEN \* update_quotes: cancel_quotes, then place_quotes
                   IF quote_order_ids(state) = {}
                   THEN place_quotes(t, state)
                   ELSE Park("cancel_requote", t, state, NoRequest)
              ELSE IF decision = "cancel_quotes"
              THEN Park("cancel_inactive", t, state, NoRequest)
              ELSE Park("sleep", IdleTick, state, NoRequest)
    /\ UNCHANGED <<config, positions, last_fill_id, last_fill_ts, orders, fills,
                   next_order_id, poll_pc, poll_resp, apply_log, call>>

\* One iteration of the loop with the clock left out.
Tick == run_iteration /\ UNCHANGED elapsed

\* run, get_market or get_orderbook raises: "except Exception" logs
\* "Loop iteration ... error", reports it to update_callback and the
\* loop sleeps; nothing was sent or recorded.
run_iteration_error ==
    /\ loop_pc = "sleep"
    /\ Park("sleep", IdleTick, state, NoRequest)
    /\ UNCHANGED <<config, positions, last_fill_id, last_fill_ts, orders, fills,
                   next_order_id, poll_pc, poll_resp, apply_log, call>>

TickError == run_iteration_error /\ UNCHANGED elapsed

\* update_quotes: await self.bot.cancel_all_orders(order_ids) is over;
\* place_quotes follows whether it succeeded or raised.
CancelRequoteOk ==
    /\ loop_pc = "cancel_requote"
    /\ exchange_cancel(tick.order_ids)
    /\ place_quotes(tick, cancel_quotes_ok(state))
    /\ UNCHANGED <<config, positions, last_fill_id, last_fill_ts, fills,
                   poll_pc, poll_resp, apply_log, call, elapsed>>

CancelRequoteError ==
    /\ loop_pc = "cancel_requote"
    /\ exchange_error
    /\ place_quotes(tick, cancel_quotes_failed(state, FALSE))
    /\ UNCHANGED <<config, positions, last_fill_id, last_fill_ts, fills,
                   poll_pc, poll_resp, apply_log, call, elapsed>>

\* run, market not active: await self.quoter.cancel_quotes() is over.
CancelInactiveOk ==
    /\ loop_pc = "cancel_inactive"
    /\ exchange_cancel(tick.order_ids)
    /\ Park("sleep", IdleTick, cancel_quotes_ok(state), NoRequest)
    /\ UNCHANGED <<config, positions, last_fill_id, last_fill_ts, fills,
                   poll_pc, poll_resp, apply_log, call, elapsed>>

CancelInactiveError ==
    /\ loop_pc = "cancel_inactive"
    /\ exchange_error
    /\ Park("sleep", IdleTick, cancel_quotes_failed(state, FALSE), NoRequest)
    /\ UNCHANGED <<config, positions, last_fill_id, last_fill_ts, fills,
                   poll_pc, poll_resp, apply_log, call, elapsed>>

\* place_quotes: await self.bot.place_order(action="buy", ...) is over.
PlaceBidOk ==
    /\ loop_pc = "place_bid"
    /\ exchange_place("buy", tick.bid_price)
    /\ AfterBid([tick EXCEPT !.bid_order_id = next_order_id], state)
    /\ UNCHANGED <<config, positions, last_fill_id, last_fill_ts, fills,
                   poll_pc, poll_resp, apply_log, call, elapsed>>

\* PlaceBidError whose exception leaves place_quotes and run().
PlaceBidError_raises ==
    /\ loop_pc = "place_bid"
    /\ exchange_error
    /\ Park("raised", tick, state, NoRequest)
    /\ UNCHANGED <<config, positions, last_fill_id, last_fill_ts, fills,
                   poll_pc, poll_resp, apply_log, call, elapsed>>

\* ... or raised: "except Exception" logs "Failed to place bid".
PlaceBidError ==
    /\ loop_pc = "place_bid"
    /\ exchange_error
    /\ AfterBid(tick, state)
    /\ UNCHANGED <<config, positions, last_fill_id, last_fill_ts, fills,
                   poll_pc, poll_resp, apply_log, call, elapsed>>

\* PlaceAskOk that books the resting ask into the ledger as if it had
\* traded.
PlaceAskOk_books ==
    /\ loop_pc = "place_ask"
    /\ exchange_place("sell", tick.ask_price)
    /\ AfterAsk([tick EXCEPT !.ask_order_id = next_order_id], state)
    /\ positions' = [positions EXCEPT ![MARKET_TICKER].position =
                         @ - config.QUOTE_SIZE]
    /\ UNCHANGED <<config, last_fill_id, last_fill_ts, fills,
                   poll_pc, poll_resp, apply_log, call, elapsed>>

\* place_quotes: await self.bot.place_order(action="sell", ...) is over.
PlaceAskOk ==
    /\ loop_pc = "place_ask"
    /\ exchange_place("sell", tick.ask_price)
    /\ AfterAsk([tick EXCEPT !.ask_order_id = next_order_id], state)
    /\ UNCHANGED <<config, positions, last_fill_id, last_fill_ts, fills,
                   poll_pc, poll_resp, apply_log, call, elapsed>>

PlaceAskError ==
    /\ loop_pc = "place_ask"
    /\ exchange_error
    /\ AfterAsk(tick, state)
    /\ UNCHANGED <<config, positions, last_fill_id, last_fill_ts, fills,
                   poll_pc, poll_resp, apply_log, call, elapsed>>

\* place_quotes: await self.bot.cancel_order(<the lone leg>) is over.
CancelLoneOk ==
    /\ loop_pc \in {"cancel_lone_bid", "cancel_lone_ask"}
    /\ exchange_cancel({tick.bid_order_id, tick.ask_order_id} \ {None})
    /\ RecordQuotes([tick EXCEPT !.bid_order_id = None, !.ask_order_id = None])
    /\ UNCHANGED <<config, positions, last_fill_id, last_fill_ts, fills,
                   poll_pc, poll_resp, apply_log, call, elapsed>>

CancelLoneError ==
    /\ loop_pc \in {"cancel_lone_bid", "cancel_lone_ask"}
    /\ exchange_error
    /\ RecordQuotes(tick)             \* the id stays: "Failed to cancel lone ..."
    /\ UNCHANGED <<config, positions, last_fill_id, last_fill_ts, fills,
                   poll_pc, poll_resp, apply_log, call, elapsed>>

-----------------------------------------------------------------------------
(* The running system: control loop, fill poller, exchange *)

NoCall == [fn |-> "none", args |-> <<>>, done |-> FALSE, ret |-> <<>>]

\* Positions GET /portfolio/positions may report at startup
\* (_load_positions_from_api stores them with avg_entry_price 0.0).
InitPositions == { 0, 29 }

\* The process right after construction, before __aenter__: neither task
\* runs, no watermark, no quotes, nothing at the exchange.
TasksOff ==
    /\ last_fill_id = None
    /\ last_fill_ts = None
    /\ state = EmptyQuoteState
    /\ orders = {}
    /\ fills = <<>>
    /\ next_order_id = 1
    /\ loop_pc = "off"
    /\ tick = IdleTick
    /\ poll_pc = "off"
    /\ poll_resp = <<>>
    /\ apply_log = <<>>
    /\ inflight = NoRequest
    /\ elapsed = 0

\* ... and nothing loaded into the ledger.
QuietSystem ==
    /\ positions = [t \in Tickers |-> ZeroPosition]
    /\ TasksOff

\* The process after __aenter__: initialize() has loaded the positions and
\* set the watermark to the newest fill of the account's history (one fill
\* of an earlier session when the account holds a position, none when it
\* is flat); both tasks are about to start.
Started ==
    /\ call = NoCall
    /\ \E p \in InitPositions :
          /\ positions = [t \in Tickers |->
                 IF t = MARKET_TICKER THEN TrackedPosition(p, Frac(0, 1), 0, None)
                 ELSE ZeroPosition]
          /\ fills = IF p = 0 THEN <<>>
                     ELSE << FillRecord(1, 0, MARKET_TICKER, "yes",
                                        IF p > 0 THEN "buy" ELSE "sell",
                                        Abs(p), 10, 1, TRUE) >>
          /\ last_fill_id = IF p = 0 THEN None ELSE 1
          /\ last_fill_ts = IF p = 0 THEN None ELSE 1
    /\ state = EmptyQuoteState
    /\ orders = {}
    /\ next_order_id = 1
    /\ loop_pc = "sleep"
    /\ tick = IdleTick
    /\ poll_pc = "sleep"
    /\ poll_resp = <<>>
    /\ apply_log = <<>>
    /\ inflight = NoRequest
    /\ elapsed = 0

Init ==
    /\ config = DefaultConfig
    /\ Started

Next ==
    \/ Tick \/ TickError
    \/ CancelRequoteOk \/ CancelRequoteError
    \/ CancelInactiveOk \/ CancelInactiveError
    \/ PlaceBidOk \/ PlaceBidError
    \/ PlaceAskOk \/ PlaceAskError
    \/ CancelLoneOk \/ CancelLoneError
    \/ PollFetch \/ PollProcess
    \/ ExchangeFill

Spec == Init /\ [][Next]_vars

-----------------------------------------------------------------------------
(* Quoter.calculate_quotes called on its own, over its whole input range *)

Prices == 1..99
SkewRange == -50..50
SpreadWidths == {4, 6}      \* config.py ships 4; the demo test assumes 6

InitCalc ==
    /\ \E w \in SpreadWidths :
          config = [DefaultConfig EXCEPT !.SPREAD_WIDTH = w]
    /\ QuietSystem
    /\ \E bb \in Prices, ba \in Prices, skew \in SkewRange :
          call = [fn |-> "calculate_quotes", args |-> <<bb, ba, skew>>,
                  done |-> FALSE, ret |-> <<>>]

CallCalculateQuotes ==
    /\ call.fn = "calculate_quotes"
    /\ ~call.done
    /\ call' = [call EXCEPT !.done = TRUE,
                  !.ret = calculate_quotes(call.args[1], call.args[2],
                                           call.args[3])]
    /\ UNCHANGED <<config, sysvars>>

NextCalc == CallCalculateQuotes

SpecCalc == InitCalc /\ [][NextCalc]_vars

\* The running system together with the stand-alone calls.
InitQuotes == Init \/ InitCalc

NextQuotes == Next \/ NextCalc

SpecQuotes == InitQuotes /\ [][NextQuotes]_vars

\* calculate_quotes has returned.
CalcDone == call.fn = "calculate_quotes" /\ call.done

-----------------------------------------------------------------------------
(* Claims about the quote prices *)

\* C8: for 1 <= best_bid < best_ask <= 99 and skew in -50..50,
\* calculate_quotes returns a bid of at least 1 and an ask of at most 99.
C8_PriceRange ==
    (CalcDone /\ call.args[1] < call.args[2])
        => (call.ret[1] >= 1 /\ call.ret[2] <= 99)

\* C9: calculate_quotes returns bid < ask for every input, and a
\* QuoteState that holds both prices has bid_price < ask_price.
C9_NeverCross ==
    /\ CalcDone => call.ret[1] < call.ret[2]
    /\ (state.bid_price # None /\ state.ask_price # None)
           => state.bid_price < state.ask_price

\* The running system holds a two-sided QuoteState whose prices came from
\* the anti-cross fallback (long 29, market 10/12: both raw prices clamp
\* to 1).
C9_Witness ==
    /\ positions[MARKET_TICKER].position = 29
    /\ state.bid_order_id # None
    /\ state.ask_order_id # None
    /\ state.bid_price = 10
    /\ state.ask_price = 12

\* r is raw2/2 rounded to a nearest integer (either neighbour on a tie).
Nearest(r, raw2) == Abs(2 * r - raw2) <= 1

Clamp(r) == IF r < 1 THEN 1 ELSE IF r > 99 THEN 99 ELSE r

\* The reference computation of the pricing algorithm gives <<bid, ask>>.
Reference(best_bid, best_ask, skew, bid, ask) ==
    LET mid2     == best_bid + best_ask
        raw_bid2 == mid2 - config.SPREAD_WIDTH - 2 * skew
        raw_ask2 == mid2 + config.SPREAD_WIDTH - 2 * skew
    IN  \E rb \in ((raw_bid2 \div 2) - 1)..((raw_bid2 \div 2) + 1),
           ra \in ((raw_ask2 \div 2) - 1)..((raw_ask2 \div 2) + 1) :
           /\ Nearest(rb, raw_bid2)
           /\ Nearest(ra, raw_ask2)
           /\ IF Clamp(rb) >= Clamp(ra)
              THEN bid = (mid2 \div 2) - 1 /\ ask = (mid2 \div 2) + 1
              ELSE bid = Clamp(rb) /\ ask = Clamp(ra)

-----------------------------------------------------------------------------
(* PositionManager.can_add_position called on its own *)

PositionCaps == {2, 30}         \* MAX_POSITION_SIZE: a small cap and config.py's
MaxOver == 3                    \* how far beyond the cap a loaded position lies
MaxContracts == 8               \* size of a candidate order
OtherPositions == {0, -4, -6}   \* OTHER_TICKER at average 0: 0, 400, 600 cents

InitGate ==
    /\ TasksOff
    /\ \E cap \in PositionCaps :
          /\ config = [DefaultConfig EXCEPT !.MAX_POSITION_SIZE = cap]
          /\ \E cur \in (-(cap + MaxOver))..(cap + MaxOver),
                other \in OtherPositions :
                positions = [t \in Tickers |->
                    TrackedPosition(IF t = MARKET_TICKER THEN cur ELSE other,
                                    Frac(0, 1), 0, None)]
    /\ \E side \in {"yes", "no"}, contracts \in 1..MaxContracts,
          price_cents \in Prices :
          call = [fn |-> "can_add_position",
                  args |-> <<MARKET_TICKER, side, contracts, price_cents>>,
                  done |-> FALSE, ret |-> <<>>]

CallCanAddPosition ==
    /\ call.fn = "can_add_position"
    /\ ~call.done
    /\ call' = [call EXCEPT !.done = TRUE,
                  !.ret = can_add_position(call.args[1], call.args[2],
                                           call.args[3], call.args[4])]
    /\ UNCHANGED <<config, sysvars>>

NextGate == CallCanAddPosition

SpecGate == InitGate /\ [][NextGate]_vars

\* can_add_position has returned; the candidate's signed size and the
\* position it would lead to.
GateDone == call.fn = "can_add_position" /\ call.done

GateCur == positions[MARKET_TICKER].position

GateNew == GateCur + (IF call.args[2] = "yes" THEN call.args[3]
                                              ELSE -call.args[3])

\* C6: when |net| equals MAX_POSITION_SIZE and the candidate (contracts > 0)
\* would increase |net|, can_add_position answers allowed = False, at every
\* price and every exposure of the other positions.
C6_AtCapRejected ==
    ( /\ GateDone
      /\ Abs(GateCur) = config.MAX_POSITION_SIZE
      /\ call.args[3] > 0
      /\ Abs(GateNew) > Abs(GateCur) )
        => call.ret[1] = FALSE

\* Long exactly the cap of 30 with no other exposure, one more YES contract
\* at 1 cent (30 cents of exposure at most) is refused.
C6_Witness ==
    /\ GateDone
    /\ config.MAX_POSITION_SIZE = 30
    /\ GateCur = 30
    /\ positions[OTHER_TICKER].position = 0
    /\ call.args = <<MARKET_TICKER, "yes", 1, 1>>
    /\ call.ret[1] = FALSE

\* C7: a candidate that strictly reduces |net| is allowed whatever the
\* position cap and the exposure cap, also when |net| is above
\* MAX_POSITION_SIZE before and after (cap 2, net -5, buy 2 YES).
C7_RiskReducingAllowed ==
    ( /\ GateDone
      /\ Abs(GateNew) < Abs(GateCur) )
        => call.ret[1] = TRUE

\* Cap 2, net -5, 600 cents of other exposure (cap 500): buy 2 YES at 40 is
\* allowed.
C7_Witness ==
    /\ GateDone
    /\ config.MAX_POSITION_SIZE = 2
    /\ GateCur = -5
    /\ positions[OTHER_TICKER].position = -6
    /\ call.args = <<MARKET_TICKER, "yes", 2, 40>>
    /\ call.ret[1] = TRUE

-----------------------------------------------------------------------------
(* The fill poller on a fresh ledger, fed by fills of any shape *)

MaxExternalFills == 2       \* fill records the exchange reports
Counts == {1, 2}
FillPrices == {30, 60}

InitLedger ==
    /\ config = DefaultConfig
    /\ call = NoCall
    /\ positions = [t \in Tickers |-> ZeroPosition]
    /\ last_fill_id = None
    /\ last_fill_ts = None
    /\ state = EmptyQuoteState
    /\ orders = {}
    /\ fills = <<>>
    /\ next_order_id = 1
    /\ loop_pc = "off"
    /\ tick = IdleTick
    /\ poll_pc = "sleep"
    /\ poll_resp = <<>>
    /\ apply_log = <<>>
    /\ inflight = NoRequest
    /\ elapsed = 0

\* The exchange reports one more fill on the ticker: any action, side,
\* count and price, in the second of the newest record or the next one, as
\* a record Fill(**fill_data) accepts or one it rejects (a rejected
\* record's other fields are never read).
ExternalFill ==
    /\ Len(fills) < MaxExternalFills
    /\ \E action \in {"buy", "sell"}, side \in {"yes", "no"}, count \in Counts,
          yes_price \in FillPrices, same_second \in BOOLEAN,
          parse_ok \in BOOLEAN :
          LET newest == IF fills = <<>> THEN 1 ELSE fills[1].created_ts
              ts     == IF same_second THEN newest ELSE newest + 1
          IN  /\ parse_ok \/ (action = "buy" /\ side = "yes" /\ count = 1
                               /\ yes_price = 30)
              /\ fills' = << FillRecord(Len(fills) + 1, 0, MARKET_TICKER, side,
                                        action, count, yes_price, ts,
                                        parse_ok) >> \o fills
    /\ UNCHANGED <<config, positions, last_fill_id, last_fill_ts, state, orders,
                   next_order_id, loop_pc, tick, poll_pc, poll_resp,
                   apply_log, inflight, call, elapsed>>

NextLedger == ExternalFill \/ PollFetch \/ PollProcess

SpecLedger == InitLedger /\ [][NextLedger]_vars

\* The record of the exchange with this fill_id.
FillById(id) == fills[CHOOSE i \in 1..Len(fills) : fills[i].fill_id = id]

\* What the ledger says about a position.
LedgerView(p) ==
    << p.position, p.avg_entry_price, p.realized_pnl_cents >>

OtherSide(side) == IF side = "yes" THEN "no" ELSE "yes"

RECURSIVE Replay(_, _, _, _)
\* The position after the fills log[i..] are applied in turn to pos, each
\* with its reported side swapped when flip is set.
Replay(log, i, pos, flip) ==
    IF i > Len(log) THEN pos
    ELSE LET f == FillById(log[i])
             g == IF flip THEN [f EXCEPT !.side = OtherSide(f.side)] ELSE f
         IN  Replay(log, i + 1, apply_fill(pos, g), flip)

RECURSIVE Dedup(_, _)
\* log[i..] with every fill_id kept at its first occurrence only.
Dedup(log, i) ==
    IF i > Len(log) THEN <<>>
    ELSE IF \E j \in 1..(i - 1) : log[j] = log[i]
         THEN Dedup(log, i + 1)
         ELSE <<log[i]>> \o Dedup(log, i + 1)

RECURSIVE SignedSum(_, _)
\* Sum over log[i..] of +count for a buy and -count for a sell.
SignedSum(log, i) ==
    IF i > Len(log) THEN 0
    ELSE LET f == FillById(log[i])
         IN  (IF f.action = "buy" THEN f.count ELSE -f.count)
             + SignedSum(log, i + 1)

-----------------------------------------------------------------------------
(* Claims about the ledger *)

\* C2: over any sequence of polls, those that raise part-way and are
\* retried from the same watermark included, every fill_id is applied to
\* the ledger (and with it handed to the subscribers) at most once.
C2_AtMostOnce ==
    \A i \in 1..Len(apply_log), j \in 1..Len(apply_log) :
        apply_log[i] = apply_log[j] => i = j

\* C3: applying a fill_id that was applied before leaves net_contracts,
\* avg_entry_price and realized_pnl_cents as they were: the ledger is what
\* the applied fills give when each fill_id counts once.
C3_Idempotent ==
    LedgerView(positions[MARKET_TICKER])
        = LedgerView(Replay(Dedup(apply_log, 1), 1, ZeroPosition, FALSE))

\* C4: every applied fill moves net_contracts by +count when it is a buy and
\* by -count when it is a sell, and the ledger is the same when the
\* reported side of every fill is the other one.
C4_ActionOnly ==
    /\ positions[MARKET_TICKER].position = SignedSum(apply_log, 1)
    /\ LedgerView(positions[MARKET_TICKER])
          = LedgerView(Replay(apply_log, 1, ZeroPosition, TRUE))

\* A buy of 2 reported with side "no" and a sell of 1 reported with side
\* "yes" are applied: net is +1.
C4_Witness ==
    /\ Len(apply_log) = 2
    /\ \E i \in 1..2 :
          /\ FillById(apply_log[i]).action = "buy"
          /\ FillById(apply_log[i]).side = "no"
          /\ FillById(apply_log[i]).count = 2
          /\ FillById(apply_log[3 - i]).action = "sell"
          /\ FillById(apply_log[3 - i]).side = "yes"
          /\ FillById(apply_log[3 - i]).count = 1
    /\ positions[MARKET_TICKER].position = 1

-----------------------------------------------------------------------------
(* Claims about the running system *)

\* C1: started within the cap and filled only through its own orders, the
\* ledger keeps |net_contracts| <= MAX_POSITION_SIZE in every reachable
\* state, under every interleaving of ticks, polls, exchange fills and
\* failing exchange calls.
C1_PositionCap ==
    Abs(positions[MARKET_TICKER].position) <= config.MAX_POSITION_SIZE

\* The position an order request in flight leads to, and the exposure the
\* risk gate attributes to it, on the ledger at the moment of sending.
SentNew == inflight.position + (IF inflight.side = "yes" THEN inflight.contracts
                                                         ELSE -inflight.contracts)

SentExposure ==
    inflight.other_exposure
        + (IF SentNew > 0 THEN SentNew * inflight.price_cents
           ELSE IF SentNew < 0 THEN (-SentNew) * (100 - inflight.price_cents)
           ELSE 0)

C11_TouchClamp ==
    (CalcDone /\ call.args[1] < call.args[2])
        => (call.ret[1] <= call.args[1] /\ call.ret[2] >= call.args[2])

-----------------------------------------------------------------------------
(* Quoter.calculate_quotes called twice on one market, with two skews *)

SkewSteps == {1, 12}        \* skew2 - skew1

InitSkew ==
    /\ \E w \in SpreadWidths :
          config = [DefaultConfig EXCEPT !.SPREAD_WIDTH = w]
    /\ QuietSystem
    /\ \E bb \in Prices, ba \in Prices, skew1 \in SkewRange, d \in SkewSteps :
          /\ bb < ba
          /\ skew1 + d \in SkewRange
          /\ call = [fn |-> "calculate_quotes twice",
                     args |-> <<bb, ba, skew1, skew1 + d>>,
                     done |-> FALSE, ret |-> <<>>]

CallCalculateQuotesTwice ==
    /\ call.fn = "calculate_quotes twice"
    /\ ~call.done
    /\ call' = [call EXCEPT !.done = TRUE,
                  !.ret = << calculate_quotes(call.args[1], call.args[2],
                                              call.args[3]),
                             calculate_quotes(call.args[1], call.args[2],
                                              call.args[4]) >>]
    /\ UNCHANGED <<config, sysvars>>

NextSkew == CallCalculateQuotesTwice

SpecSkew == InitSkew /\ [][NextSkew]_vars

\* C12: on a market 1 <= best_bid < best_ask <= 99, skew1 < skew2 gives
\* bid(skew2) <= bid(skew1) and ask(skew2) <= ask(skew1).
C12_SkewMonotone ==
    (call.fn = "calculate_quotes twice" /\ call.done)
        => /\ call.ret[2][1] <= call.ret[1][1]
           /\ call.ret[2][2] <= call.ret[1][2]

-----------------------------------------------------------------------------
(* The quoter's methods called on their own, on any QuoteState *)

\* Markets and skews the calls are made with.
ReqMarkets == { <<1, 3>>, <<10, 12>>, <<45, 54>>, <<45, 55>>, <<45, 56>>,
                <<46, 55>>, <<48, 58>>, <<49, 51>>, <<50, 51>>, <<50, 52>> }
ReqSkews == {0, 1, 10}

\* Quote prices set directly on the state, as src/demo/test_quoter.py does
\* (last_midpoint 50.0).
TestQuotes == { <<43, 57>>, <<45, 55>>, <<48, 53>>, <<43, 52>> }

\* The QuoteState with the given legs present, out of a two-sided one.
Legs(bid_price, ask_price, mid2, has_bid, has_ask) ==
    QuoteState(IF has_bid THEN 1 ELSE None, IF has_ask THEN 2 ELSE None,
               IF has_bid THEN bid_price ELSE None,
               IF has_ask THEN ask_price ELSE None, mid2)

\* The quoter holds a state place_quotes recorded on market placed[1..2] with
\* skew placed[3] (legs landed or cleared by fills since), one a test set
\* directly (placed = <<>>), or the initial QuoteState().
InitQuoteState(placed) ==
    \/ /\ placed = <<>>
       /\ state = EmptyQuoteState
    \/ /\ placed = <<>>
       /\ \E q \in TestQuotes, has_bid \in BOOLEAN, has_ask \in BOOLEAN :
             state = Legs(q[1], q[2], 100, has_bid, has_ask)
    \/ /\ placed # <<>>
       /\ \E has_bid \in BOOLEAN, has_ask \in BOOLEAN :
             LET q == calculate_quotes(placed[1], placed[2], placed[3])
             IN  state = Legs(q[1], q[2], placed[1] + placed[2],
                              has_bid, has_ask)

InitQuoter ==
    /\ config = DefaultConfig
    /\ positions = [t \in Tickers |-> ZeroPosition]
    /\ last_fill_id = None
    /\ last_fill_ts = None
    /\ fills = <<>>
    /\ next_order_id = 3
    /\ loop_pc = "off"
    /\ tick = IdleTick
    /\ poll_pc = "off"
    /\ poll_resp = <<>>
    /\ apply_log = <<>>
    /\ inflight = NoRequest
    /\ elapsed = 0
    /\ \E placed \in {<<>>} \cup { <<m[1], m[2], k>> : m \in ReqMarkets,
                                                       k \in ReqSkews } :
          /\ InitQuoteState(placed)
          /\ orders = { Order(id, IF id = 1 THEN "buy" ELSE "sell",
                              IF id = 1 THEN state.bid_price
                                        ELSE state.ask_price) :
                        id \in quote_order_ids(state) }
          /\ \/ \E m \in ReqMarkets, skew \in ReqSkews :
                   call = [fn |-> "should_requote",
                           args |-> <<m[1], m[2], skew, placed>>,
                           done |-> FALSE, ret |-> <<>>]
             \/ \E order_id \in {None} \cup 1..3, m \in ReqMarkets,
                   skew \in ReqSkews :
                   call = [fn |-> "on_fill",
                           args |-> <<order_id, m[1], m[2], skew, state>>,
                           done |-> FALSE, ret |-> <<>>]
             \/ \E force_clear \in BOOLEAN :
                   call = [fn |-> "cancel_quotes",
                           args |-> <<force_clear, state>>,
                           done |-> FALSE, ret |-> <<>>]

\* await quoter.on_fill(fill) for a fill of order call.args[1].
CallOnFill ==
    /\ call.fn = "on_fill"
    /\ ~call.done
    /\ state' = on_fill(state, [order_id |-> call.args[1]])
    /\ call' = [call EXCEPT !.done = TRUE]
    /\ UNCHANGED <<config, positions, last_fill_id, last_fill_ts, orders, fills,
                   next_order_id, loop_pc, tick, poll_pc, poll_resp,
                   apply_log, inflight,
                   elapsed>>

\* quoter.should_requote(best_bid, best_ask, inventory_skew), as the first
\* call or as the call that follows on_fill.
CallShouldRequote ==
    /\ \/ call.fn = "should_requote" /\ ~call.done
       \/ call.fn = "on_fill" /\ call.done /\ call.ret = <<>>
    /\ LET k == IF call.fn = "on_fill" THEN 1 ELSE 0
       IN  call' = [call EXCEPT !.done = TRUE,
                      !.ret = should_requote(state, call.args[k + 1],
                                  call.args[k + 2], call.args[k + 3])]
    /\ UNCHANGED <<config, sysvars>>

\* await quoter.cancel_quotes(force_clear) when the state holds no leg:
\* "return 0" before any call.
CallCancelQuotesEmpty ==
    /\ call.fn = "cancel_quotes"
    /\ ~call.done
    /\ quote_order_ids(state) = {}
    /\ call' = [call EXCEPT !.done = TRUE, !.ret = <<{}, "none">>]
    /\ UNCHANGED <<config, sysvars>>

\* ... when cancel_all_orders(order_ids) returns.
CallCancelQuotesOk ==
    /\ call.fn = "cancel_quotes"
    /\ ~call.done
    /\ quote_order_ids(state) # {}
    /\ exchange_cancel(quote_order_ids(state))
    /\ state' = cancel_quotes_ok(state)
    /\ call' = [call EXCEPT !.done = TRUE,
                  !.ret = <<quote_order_ids(state), "ok">>]
    /\ UNCHANGED <<config, positions, last_fill_id, last_fill_ts, fills,
                   loop_pc, tick, poll_pc, poll_resp, apply_log, inflight,
                   elapsed>>

\* ... when cancel_all_orders(order_ids) raises.
CallCancelQuotesError ==
    /\ call.fn = "cancel_quotes"
    /\ ~call.done
    /\ quote_order_ids(state) # {}
    /\ exchange_error
    /\ state' = cancel_quotes_failed(state, call.args[1])
    /\ call' = [call EXCEPT !.done = TRUE,
                  !.ret = <<quote_order_ids(state), "error">>]
    /\ UNCHANGED <<config, positions, last_fill_id, last_fill_ts, fills,
                   loop_pc, tick, poll_pc, poll_resp, apply_log, inflight,
                   elapsed>>

NextQuoter ==
    \/ CallOnFill \/ CallShouldRequote
    \/ CallCancelQuotesEmpty \/ CallCancelQuotesOk \/ CallCancelQuotesError

SpecQuoter == InitQuoter /\ [][NextQuoter]_vars

\* Both order ids are absent.
IsEmpty(st) == st.bid_order_id = None /\ st.ask_order_id = None

-----------------------------------------------------------------------------
(* Claims about the quoter's state machine *)

\* C13: cancel_quotes from a state with a leg ends Empty when the exchange
\* cancel succeeds; when it fails the state is exactly as before with
\* force_clear false and Empty with force_clear true; from Empty no
\* exchange call is made and the state stays Empty.
C13_CancelTransitions ==
    (call.fn = "cancel_quotes" /\ call.done) =>
        LET before      == call.args[2]
            force_clear == call.args[1]
        IN  /\ ~IsEmpty(before) =>
                  /\ call.ret[1] = quote_order_ids(before)
                  /\ call.ret[2] = "ok" => state = EmptyQuoteState
                  /\ (call.ret[2] = "error" /\ ~force_clear) => state = before
                  /\ (call.ret[2] = "error" /\ force_clear)
                        => state = EmptyQuoteState
            /\ IsEmpty(before) =>
                  /\ call.ret = <<{}, "none">>
                  /\ IsEmpty(state)
                  /\ orders = {}

\* A failed cancel without force_clear has returned from a two-sided state,
\* which is kept while both orders still rest.
C13_Witness ==
    /\ call.fn = "cancel_quotes"
    /\ call.done
    /\ call.args[1] = FALSE
    /\ call.ret = <<{1, 2}, "error">>
    /\ state = Legs(43, 57, 100, TRUE, TRUE)
    /\ Cardinality(orders) = 2


\* on_fill has run: the fill's order id and the QuoteState it was given.
FillDone == call.fn = "on_fill" /\ call.done
FilledId == call.args[1]
BeforeFill == call.args[5]

\* C15: a fill whose order id is the stored bid (ask) id clears that leg's
\* id and price and leaves the other leg's id and price and last_midpoint
\* as they were; a fill matching neither stored id leaves the QuoteState
\* entirely unchanged.
C15_OnFillFrame ==
    FillDone =>
        /\ (FilledId # None /\ FilledId = BeforeFill.bid_order_id) =>
              /\ state.bid_order_id = None
              /\ state.bid_price = None
              /\ state.ask_order_id = BeforeFill.ask_order_id
              /\ state.ask_price = BeforeFill.ask_price
              /\ state.last_midpoint2 = BeforeFill.last_midpoint2
        /\ (FilledId # None /\ FilledId = BeforeFill.ask_order_id) =>
              /\ state.ask_order_id = None
              /\ state.ask_price = None
              /\ state.bid_order_id = BeforeFill.bid_order_id
              /\ state.bid_price = BeforeFill.bid_price
              /\ state.last_midpoint2 = BeforeFill.last_midpoint2
        /\ (FilledId = None \/ FilledId \notin quote_order_ids(BeforeFill))
              => state = BeforeFill

\* The bid of a two-sided 45/55 state was filled: the ask leg stays.
C15_Witness ==
    /\ FillDone
    /\ FilledId = 1
    /\ BeforeFill = Legs(45, 55, 100, TRUE, TRUE)
    /\ state = Legs(45, 55, 100, FALSE, TRUE)

\* C16: should_requote answers true in every state with fewer than two
\* legs, whatever the market and skew; so it does on the call that follows
\* an on_fill for a stored leg.
C16_RequoteAfterFill ==
    /\ (call.fn = "should_requote" /\ call.done /\ ~has_active_quotes(state))
          => call.ret[1] = TRUE
    /\ (FillDone /\ call.ret # <<>>
            /\ FilledId \in quote_order_ids(BeforeFill))
          => /\ ~has_active_quotes(state)
             /\ call.ret[1] = TRUE

\* The ask of a two-sided state that should_requote would have kept
\* (both legs at the prices computed for the 45/55 market) was filled, and
\* the call that follows asks for new quotes.
C16_Witness ==
    /\ FillDone
    /\ FilledId = 2
    /\ has_active_quotes(BeforeFill)
    /\ should_requote(BeforeFill, call.args[2], call.args[3], call.args[4])[1]
          = FALSE
    /\ state.bid_order_id = 1
    /\ call.ret = <<TRUE, "No active quotes">>

\* should_requote has answered for market (bb, ba) with the skew the state
\* was placed with (0 for a state set directly).
RequoteDone == call.fn = "should_requote" /\ call.done
PlacedSkew == IF call.args[4] = <<>> THEN 0 ELSE call.args[4][3]
MovedBy2 == Abs((call.args[1] + call.args[2]) - state.last_midpoint2)

\* C17: with both legs resting, bid_price <= best_bid, ask_price >=
\* best_ask, bid_price < ask_price and a midpoint that moved by less than
\* REQUOTE_THRESHOLD since last_midpoint, should_requote answers false.
C17_StableNoRequote ==
    ( /\ RequoteDone
      /\ call.args[3] = PlacedSkew
      /\ has_active_quotes(state)
      /\ state.bid_price <= call.args[1]
      /\ state.ask_price >= call.args[2]
      /\ state.bid_price < state.ask_price
      /\ MovedBy2 < 2 * config.REQUOTE_THRESHOLD )
        => call.ret[1] = FALSE

\* C18: with both legs at the prices place_quotes computed at
\* last_midpoint, the skew unchanged and a midpoint that moved by at least
\* REQUOTE_THRESHOLD, should_requote answers true.
C18_ThresholdSubsumed ==
    ( /\ RequoteDone
      /\ call.args[4] # <<>>
      /\ call.args[3] = PlacedSkew
      /\ has_active_quotes(state)
      /\ MovedBy2 >= 2 * config.REQUOTE_THRESHOLD )
        => call.ret[1] = TRUE


-----------------------------------------------------------------------------
(* Claims about place_quotes in the running system *)

\* place_quotes returns on this step: from its last order placement, or
\* from the cancel of a lone leg.
ReturnsFromPlacement == loop_pc \in {"place_bid", "place_ask"} /\ loop_pc' = "sleep"
ReturnsFromLoneCancel ==
    loop_pc \in {"cancel_lone_bid", "cancel_lone_ask"} /\ loop_pc' = "sleep"

BidOnly(st) == st.bid_order_id # None /\ st.ask_order_id = None
AskOnly(st) == st.ask_order_id # None /\ st.bid_order_id = None

\* The lone leg place_quotes is cancelling.
LoneId == IF loop_pc = "cancel_lone_bid" THEN tick.bid_order_id
                                         ELSE tick.ask_order_id

\* A one-legged state recorded without a cancel reduces risk.
LoneLegReducesRisk ==
    ReturnsFromPlacement =>
        /\ BidOnly(state') => positions[MARKET_TICKER].position < 0
        /\ AskOnly(state') => positions[MARKET_TICKER].position > 0

\* C14 (as stated): whenever place_quotes returns with exactly one leg
\* recorded, a bid-only state occurs only with net < 0 and an ask-only
\* state only with net > 0; a lone bid with net >= 0 or a lone ask with
\* net <= 0 is cancelled and left neither recorded nor resting.
C14_LoneLegCancelled ==
    [][ /\ LoneLegReducesRisk
        /\ ReturnsFromLoneCancel =>
              /\ IsEmpty(state')
              /\ \A o \in orders' : o.order_id # LoneId ]_vars

\* C14 (amended): ... a lone bid with net >= 0 or a lone ask with net <= 0
\* is sent a cancel; when the cancel succeeds the leg is neither recorded
\* nor resting, and when the cancel request fails the leg stays recorded
\* with its id and price and the exchange is left as it was.
C14_LoneLegCancelledUnlessCancelFails ==
    [][ /\ LoneLegReducesRisk
        /\ ReturnsFromLoneCancel =>
              \/ /\ IsEmpty(state')
                 /\ \A o \in orders' : o.order_id # LoneId
              \/ /\ orders' = orders
                 /\ quote_order_ids(state') = {LoneId}
                 /\ loop_pc = "cancel_lone_bid"
                       => state'.bid_price = tick.bid_price
                 /\ loop_pc = "cancel_lone_ask"
                       => state'.ask_price = tick.ask_price ]_vars

\* place_quotes has returned with the ask alone while the account is long
\* 29 and no fill was applied: the bid request failed and the ask stands.
C14_Witness ==
    /\ loop_pc = "sleep"
    /\ AskOnly(state)
    /\ positions[MARKET_TICKER].position = 29
    /\ apply_log = <<>>
    /\ \E o \in orders : o.order_id = state.ask_order_id


-----------------------------------------------------------------------------
(* The control loop with its exits: run() to the end of its finally block *)

\* The awaits of run()'s while loop.
LoopAwaits == { "sleep", "cancel_requote", "cancel_inactive", "place_bid",
                "place_ask", "cancel_lone_bid", "cancel_lone_ask" }

\* run(), finally: cancel_quotes(force_clear=True, reason="shutdown") up to
\* its await; with no leg recorded it returns 0 at once and run() ends.
run_finally ==
    IF quote_order_ids(state) = {}
    THEN Park("done", IdleTick, state, NoRequest)
    ELSE Park("shutdown_cancel",
              [IdleTick EXCEPT !.order_ids = quote_order_ids(state)],
              state, NoRequest)

\* The request the loop was awaiting when the task was cancelled either
\* reached the exchange or did not; its answer is never read.
AbandonRequest ==
    \/ exchange_error
    \/ /\ loop_pc = "place_bid"
       /\ exchange_place("buy", tick.bid_price)
    \/ /\ loop_pc = "place_ask"
       /\ exchange_place("sell", tick.ask_price)
    \/ /\ loop_pc \in {"cancel_requote", "cancel_inactive", "shutdown_cancel"}
       /\ exchange_cancel(tick.order_ids)
    \/ /\ loop_pc \in {"cancel_lone_bid", "cancel_lone_ask"}
       /\ exchange_cancel({tick.bid_order_id, tick.ask_order_id} \ {None})

\* while time.time() - start_time < config.MAX_RUNTIME: false after a sleep.
RuntimeReached ==
    /\ loop_pc = "sleep"
    /\ run_finally
    /\ UNCHANGED <<config, positions, last_fill_id, last_fill_ts, orders, fills,
                   next_order_id, poll_pc, poll_resp, apply_log, call, elapsed>>

\* An exception leaves the while loop: raised by update_callback inside
\* "except Exception", or by asyncio.sleep.
ExceptionEscapes ==
    /\ loop_pc = "sleep"
    /\ run_finally
    /\ UNCHANGED <<config, positions, last_fill_id, last_fill_ts, orders, fills,
                   next_order_id, poll_pc, poll_resp, apply_log, call, elapsed>>

\* action_quit: self._trading_task.cancel() while run() is in its loop;
\* CancelledError is raised at the await the loop is suspended at, passes
\* every "except Exception" and reaches the finally block.
TaskCancelled ==
    /\ loop_pc \in LoopAwaits
    /\ AbandonRequest
    /\ run_finally
    /\ UNCHANGED <<config, positions, last_fill_id, last_fill_ts, fills,
                   poll_pc, poll_resp, apply_log, call, elapsed>>

\* finally: await self.bot.cancel_all_orders(order_ids) is over; tick keeps
\* the order_ids the call was made with.
ShutdownCancelOk ==
    /\ loop_pc = "shutdown_cancel"
    /\ exchange_cancel(tick.order_ids)
    /\ Park("done", tick, cancel_quotes_ok(state), NoRequest)
    /\ UNCHANGED <<config, positions, last_fill_id, last_fill_ts, fills,
                   poll_pc, poll_resp, apply_log, call, elapsed>>

ShutdownCancelError ==
    /\ loop_pc = "shutdown_cancel"
    /\ exchange_error
    /\ Park("done", tick, cancel_quotes_failed(state, TRUE), NoRequest)
    /\ UNCHANGED <<config, positions, last_fill_id, last_fill_ts, fills,
                   poll_pc, poll_resp, apply_log, call, elapsed>>

\* self._trading_task.cancel() once more while the finally block awaits:
\* CancelledError is raised inside cancel_quotes, is no Exception, and so
\* passes cancel_quotes' handler and the one of finally; run() ends there.
ShutdownCancelled ==
    /\ loop_pc = "shutdown_cancel"
    /\ AbandonRequest
    /\ Park("aborted", tick, state, NoRequest)
    /\ UNCHANGED <<config, positions, last_fill_id, last_fill_ts, fills,
                   poll_pc, poll_resp, apply_log, call, elapsed>>

NextRun ==
    \/ Next
    \/ RuntimeReached \/ ExceptionEscapes \/ TaskCancelled
    \/ ShutdownCancelOk \/ ShutdownCancelError \/ ShutdownCancelled

SpecRun == Init /\ [][NextRun]_vars


\* run() leaves its while loop on this step.
ExitsLoop == loop_pc \in LoopAwaits /\ loop_pc' \notin LoopAwaits

\* C19: on every exit of run()'s loop (runtime reached, exception, task
\* cancellation) cancel_quotes(force_clear=True) is called for the legs
\* recorded in the QuoteState, and once it has returned the QuoteState is
\* Empty, whether the exchange cancel succeeded or raised.
C19_ShutdownCancelAll ==
    /\ [][ ExitsLoop =>
              IF quote_order_ids(state) = {}
              THEN loop_pc' = "done" /\ state' = state
              ELSE /\ loop_pc' = "shutdown_cancel"
                   /\ tick'.order_ids = quote_order_ids(state) ]_vars
    /\ [][ (loop_pc = "shutdown_cancel" /\ loop_pc' = "done")
              => state' = EmptyQuoteState ]_vars
    /\ [](loop_pc = "done" => IsEmpty(state))

\* run() has ended after a shutdown cancel for both legs that the exchange
\* did not carry out: both orders rest, the QuoteState is Empty.
C19_Witness ==
    /\ loop_pc = "done"
    /\ tick.order_ids = {1, 2}
    /\ {o.order_id : o \in orders} = {1, 2}
    /\ state = EmptyQuoteState

\* C20: once the shutdown cleanup has started, a cancellation delivered
\* while the cancel-all call is in flight does not abort it: the call ends
\* by completing or by failing and force-clearing, and the QuoteState is
\* Empty when run() has ended.
C20_ShutdownNotCancellable ==
    /\ [][ (loop_pc = "shutdown_cancel" /\ loop_pc' # "shutdown_cancel")
              => loop_pc' = "done" ]_vars
    /\ [](loop_pc \in {"done", "aborted"} => IsEmpty(state))


-----------------------------------------------------------------------------
(* Claims about the control loop's iteration *)

\* The skew run() computes from the ledger for the next iteration.
TickSkew == positions[MARKET_TICKER].position * config.INVENTORY_SKEW_PER_CONTRACT

\* The snapshot allows quoting.
Quotable(market_status, best_bid, best_ask) ==
    market_status = "active" /\ best_bid > 0 /\ best_ask > 0

\* The awaits inside update_quotes.
UpdateAwaits == { "cancel_requote", "place_bid", "place_ask",
                  "cancel_lone_bid", "cancel_lone_ask" }

\* C21: in every tick, with an active snapshot and both touches positive
\* update_quotes is called exactly when should_requote answered true;
\* with any other snapshot no order is placed in the tick and, when a leg
\* is recorded, cancel_quotes is called without force_clear (a failed
\* cancel keeps the QuoteState).
C21_TickDecision ==
    /\ [](loop_pc = "sleep" =>
            \A m \in Markets, market_status \in Statuses :
               LET d == run_decision(state, market_status, m[1], m[2],
                                     TickSkew)
               IN  IF Quotable(market_status, m[1], m[2])
                   THEN /\ d \in {"update_quotes", "none"}
                        /\ d = "update_quotes"
                              <=> should_requote(state, m[1], m[2],
                                                 TickSkew)[1]
                   ELSE d = IF has_any_quotes(state) THEN "cancel_quotes"
                                                      ELSE "none")
    /\ [][ (loop_pc = "sleep" /\ loop_pc' \in UpdateAwaits) =>
              /\ Quotable(tick'.status, tick'.best_bid, tick'.best_ask)
              /\ should_requote(state, tick'.best_bid, tick'.best_ask,
                                tick'.inventory_skew)[1] ]_vars
    /\ [][ (loop_pc = "sleep" /\ loop_pc' = "cancel_inactive") =>
              /\ ~Quotable(tick'.status, tick'.best_bid, tick'.best_ask)
              /\ has_any_quotes(state)
              /\ tick'.order_ids = quote_order_ids(state)
              /\ orders' = orders ]_vars
    /\ [][ loop_pc = "cancel_inactive" =>
              /\ loop_pc' \in {"cancel_inactive", "sleep"}
              /\ orders' \subseteq orders
              /\ loop_pc' = "sleep" =>
                    \/ /\ state' = EmptyQuoteState
                       /\ \A o \in orders' : o.order_id \notin tick.order_ids
                    \/ /\ state' = state
                       /\ orders' = orders ]_vars

\* Both quotes rest unchanged in a 10/12 market (should_requote answers
\* false) when the exchange reports no bid: the loop awaits cancel_quotes.
C21_Witness ==
    /\ loop_pc = "cancel_inactive"
    /\ tick.status = "active"
    /\ tick.best_bid = 0
    /\ has_active_quotes(state)
    /\ should_requote(state, 10, 12, TickSkew)[1] = FALSE


\* C22: an exception raised by an exchange call or a quoter operation
\* inside a tick (market fetch, cancel, placement) never ends the control
\* loop: run() stays at one of the loop's awaits and comes back to the
\* sleep that precedes the next tick.
C22_TickErrorsIsolated ==
    /\ [](loop_pc \in LoopAwaits)
    /\ [][ (loop_pc \in {"cancel_inactive", "cancel_lone_bid",
                         "cancel_lone_ask"})
              => loop_pc' \in {loop_pc, "sleep"} ]_vars
    /\ [][ (loop_pc \in {"cancel_requote", "place_bid", "place_ask"})
              => loop_pc' \in {loop_pc, "place_bid", "place_ask",
                               "cancel_lone_bid", "cancel_lone_ask",
                               "sleep"} ]_vars

\* The ask request and then the cancel of the lone bid both raised in one
\* tick of a flat account; the loop sleeps before its next tick with the
\* bid recorded.
C22_Witness ==
    /\ loop_pc = "sleep"
    /\ BidOnly(state)
    /\ positions[MARKET_TICKER].position = 0
    /\ fills = <<>>
    /\ orders = { Order(1, "buy", state.bid_price) }
    /\ next_order_id = 2


-----------------------------------------------------------------------------
(* run() with its clock: the runtime budget *)

\* Runtime budgets (seconds) the loop is run with: none, and two sleeps.
Runtimes == {0, 10}

\* Seconds from one test of the while condition to the next: the
\* iteration's requests and asyncio.sleep(LOOP_INTERVAL).
Delays == { config.LOOP_INTERVAL, config.LOOP_INTERVAL + 1 }

\* Bound of the model: the clock stops here, past every budget.
MaxElapsed == 13

\* while time.time() - start_time < config.MAX_RUNTIME that never ends.
runtime_left_always == TRUE

\* while time.time() - start_time < config.MAX_RUNTIME
runtime_left == elapsed < config.MAX_RUNTIME

InitTimed ==
    /\ \E r \in Runtimes : config = [DefaultConfig EXCEPT !.MAX_RUNTIME = r]
    /\ Started

\* The while condition holds and an iteration runs; the next test comes
\* after the iteration and its sleep.
TimedTick ==
    /\ runtime_left
    /\ elapsed < MaxElapsed
    /\ run_iteration \/ run_iteration_error
    /\ \E d \in Delays : elapsed' = Min(elapsed + d, MaxElapsed)

\* The while condition fails: finally.
TimedRuntimeReached ==
    /\ ~runtime_left
    /\ RuntimeReached

\* The requests the loop awaits, each with its two answers.
LoopRequests ==
    \/ CancelRequoteOk \/ CancelRequoteError
    \/ CancelInactiveOk \/ CancelInactiveError
    \/ PlaceBidOk \/ PlaceBidError
    \/ PlaceAskOk \/ PlaceAskError
    \/ CancelLoneOk \/ CancelLoneError
    \/ ShutdownCancelOk \/ ShutdownCancelError

NextTimed ==
    \/ TimedTick \/ TimedRuntimeReached
    \/ LoopRequests
    \/ PollFetch \/ PollProcess
    \/ ExchangeFill

\* Every exchange call of the loop eventually returns and every sleep
\* ends; the poller and the counterparties may stop at any time.
SpecTimed ==
    /\ InitTimed
    /\ [][NextTimed]_vars
    /\ WF_vars(TimedTick \/ TimedRuntimeReached)
    /\ WF_vars(LoopRequests)

\* C23: once the elapsed time has reached MAX_RUNTIME at the test of the
\* while condition, run() starts no iteration (it sends nothing and goes
\* to its cleanup), and with every exchange call returning run()
\* eventually has done the shutdown cleanup and returned.
C23_RuntimeBound ==
    /\ [][ (loop_pc = "sleep" /\ elapsed >= config.MAX_RUNTIME)
              => /\ elapsed' = elapsed
                 /\ loop_pc' \in {"sleep", "shutdown_cancel", "done"}
                 /\ next_order_id' = next_order_id ]_vars
    /\ [][ loop_pc = "done" => loop_pc' = "done" /\ state' = state ]_vars
    /\ <>(loop_pc = "done" /\ IsEmpty(state))

\* run() has returned past a budget of 10 s after ticks that placed both
\* quotes, and its cleanup cancelled them.
C23_Witness ==
    /\ loop_pc = "done"
    /\ config.MAX_RUNTIME = 10
    /\ elapsed >= 10
    /\ tick.order_ids = {1, 2}
    /\ orders = {}
    /\ IsEmpty(state)


-----------------------------------------------------------------------------
(* _apply_fill called on its own, on any position of the ledger *)

\* Net positions, average entry prices (0.0 is what the positions endpoint
\* loads; 40.5 is 1 @ 40 and 1 @ 41), realized P&L and fills of the calls.
OldPositions == (-5)..5
AvgPrices == { Frac(0, 1), Frac(40, 1), Frac(60, 1), Frac(81, 2) }
OldRealized == {0, -7}
ApplyCounts == {1, 2, 3, 5, 6}
ApplyPrices == {41, 55, 60}

InitApply ==
    /\ config = DefaultConfig
    /\ QuietSystem
    /\ \E old \in OldPositions, avg \in AvgPrices, realized \in OldRealized,
          action \in {"buy", "sell"}, count \in ApplyCounts,
          yes_price \in ApplyPrices :
          call = [fn |-> "apply_fill",
                  args |-> << TrackedPosition(old, avg, realized, None),
                              FillRecord(1, 0, MARKET_TICKER,
                                         IF action = "buy" THEN "yes" ELSE "no",
                                         action, count, yes_price, 1, TRUE) >>,
                  done |-> FALSE, ret |-> <<>>]

\* await self._apply_fill(fill), the position it leaves.
CallApplyFill ==
    /\ call.fn = "apply_fill"
    /\ ~call.done
    /\ call' = [call EXCEPT !.done = TRUE,
                  !.ret = apply_fill(call.args[1], call.args[2])]
    /\ UNCHANGED <<config, sysvars>>

NextApply == CallApplyFill

SpecApply == InitApply /\ [][NextApply]_vars

ApplyDone == call.fn = "apply_fill" /\ call.done
OldPos == call.args[1]
TheFill == call.args[2]
NewPos == call.ret
FillDelta == IF TheFill.action = "buy" THEN TheFill.count ELSE -TheFill.count
Opening == OldPos.position = 0 \/ OldPos.position * FillDelta > 0
Flips == OldPos.position * (OldPos.position + FillDelta) < 0
Closed == Min(Abs(OldPos.position), Abs(FillDelta))

\* (yes_price - avg) * closed for a long position, (avg - yes_price) * closed
\* for a short one, as a numerator over OldPos.avg_entry_price.den.
RealizedNum ==
    IF OldPos.position > 0
    THEN (TheFill.yes_price * OldPos.avg_entry_price.den
             - OldPos.avg_entry_price.num) * Closed
    ELSE (OldPos.avg_entry_price.num
             - TheFill.yes_price * OldPos.avg_entry_price.den) * Closed

\* C24: for a fill that does not flip the sign, net becomes old + delta;
\* when opening or adding avg_entry_price becomes
\* (|old| * avg + count * yes_price) / |new| and realized P&L is unchanged;
\* when reducing or closing realized P&L grows by (yes_price - avg) * closed
\* (old > 0) or (avg - yes_price) * closed (old < 0) and avg_entry_price
\* is unchanged.
C24_LedgerArithmetic ==
    (ApplyDone /\ ~Flips) =>
        /\ NewPos.position = OldPos.position + FillDelta
        /\ Opening =>
              /\ NewPos.avg_entry_price.num * OldPos.avg_entry_price.den
                    * Abs(NewPos.position)
                 = NewPos.avg_entry_price.den
                    * ( Abs(OldPos.position) * OldPos.avg_entry_price.num
                        + TheFill.count * TheFill.yes_price
                            * OldPos.avg_entry_price.den )
              /\ NewPos.realized_pnl_cents = OldPos.realized_pnl_cents
        /\ ~Opening =>
              /\ (NewPos.realized_pnl_cents - OldPos.realized_pnl_cents)
                    * OldPos.avg_entry_price.den = RealizedNum
              /\ NewPos.avg_entry_price = OldPos.avg_entry_price

\* C25: after a fill that flips the position to the other side,
\* avg_entry_price is the fill's yes_price and realized P&L was credited
\* for the |old| contracts closed only.
C25_SignFlip ==
    (ApplyDone /\ Flips) =>
        /\ NewPos.avg_entry_price = Frac(TheFill.yes_price, 1)
        /\ Closed = Abs(OldPos.position)
        /\ NewPos.realized_pnl_cents
              = OldPos.realized_pnl_cents
                  + IntOfFrac(RealizedNum, OldPos.avg_entry_price.den)


-----------------------------------------------------------------------------
(* One poll of the fill poller, with the order of its effects *)

\* Bound of the model: the fills a get_fills response holds.
MaxResponse == 3

\* Fill records of one response, newest first: ids descend from its length.
RECURSIVE Responses(_)
Responses(n) ==
    IF n = 0 THEN { <<>> }
    ELSE { << FillRecord(n, order_id, MARKET_TICKER,
                         IF action = "buy" THEN "yes" ELSE "no", action,
                         count, 50, n, TRUE) >> \o rest :
             order_id \in 0..2, action \in {"buy", "sell"}, count \in {1, 2},
             rest \in Responses(n - 1) }

\* The poller is about to iterate a response while both quotes (ids 1 and
\* 2) are recorded; the watermark is unset or names one of the older fills.
InitPoll ==
    /\ config = DefaultConfig
    /\ positions = [t \in Tickers |-> ZeroPosition]
    /\ last_fill_ts = None
    /\ state = Legs(45, 55, 100, TRUE, TRUE)
    /\ orders = {}
    /\ next_order_id = 3
    /\ loop_pc = "off"
    /\ tick = IdleTick
    /\ poll_pc = "iterate"
    /\ apply_log = <<>>
    /\ inflight = NoRequest
    /\ elapsed = 0
    /\ \E n \in 0..MaxResponse :
          /\ fills \in Responses(n)
          /\ poll_resp = fills
          /\ last_fill_id \in {None} \cup 1..(n - 1)
    /\ call = [fn |-> "poll_fills", args |-> <<>>, done |-> FALSE,
               ret |-> <<>>]

\* poll_fills from "for fill_data in fills_data" to its return: what the
\* loop does to the ledger and the subscribers, in order.
CallPollFills ==
    /\ call.fn = "poll_fills"
    /\ ~call.done
    /\ call' = [call EXCEPT !.done = TRUE,
                  !.ret = poll_loop(poll_resp, 1,
                              [ positions |-> positions, state |-> state,
                                new_fills |-> <<>>, raised |-> FALSE,
                                events |-> <<>> ])]
    /\ UNCHANGED <<config, sysvars>>

NextPoll == CallPollFills

SpecPoll == InitPoll /\ [][NextPoll]_vars

PollDone == call.fn = "poll_fills" /\ call.done

\* The fills of the response ahead of the watermark's fill.
NewFills ==
    LET hits == { i \in 1..Len(poll_resp) :
                     last_fill_id # None /\ poll_resp[i].fill_id = last_fill_id }
        stop == IF hits = {} THEN Len(poll_resp) + 1
                ELSE CHOOSE i \in hits : \A j \in hits : i <= j
    IN  SubSeq(poll_resp, 1, stop - 1)

RECURSIVE NetAfter(_, _)
\* The net position once the first k of the fills fs are applied.
NetAfter(fs, k) ==
    IF k = 0 THEN 0
    ELSE NetAfter(fs, k - 1)
         + (IF fs[k].action = "buy" THEN fs[k].count ELSE -fs[k].count)

\* C26: within one poll the new fills are processed in the order the
\* exchange returned them, up to the first fill whose id is the
\* watermark's; for each fill the ledger is updated before any subscriber
\* is invoked, and every registered subscriber is invoked with that fill
\* before the next fill is applied.
C26_PollOrdering ==
    PollDone =>
        LET events == call.ret.events
            width  == 1 + Len(fill_callbacks)
        IN  /\ call.ret.new_fills = NewFills
            /\ Len(events) = width * Len(NewFills)
            /\ \A k \in 1..Len(NewFills) :
                  LET base == width * (k - 1)
                  IN  /\ events[base + 1] =
                            FillEvent("_apply_fill", NewFills[k],
                                      NetAfter(NewFills, k))
                      /\ \A j \in 1..Len(fill_callbacks) :
                            events[base + 1 + j] =
                                FillEvent(fill_callbacks[j], NewFills[k],
                                          NetAfter(NewFills, k))

\* A response of three fills whose oldest is the watermark's: two fills
\* were applied, both quotes among them, and six events took place.
C26_Witness ==
    /\ PollDone
    /\ Len(poll_resp) = 3
    /\ last_fill_id = 1
    /\ Len(call.ret.new_fills) = 2
    /\ Len(call.ret.events) = 6
    /\ IsEmpty(call.ret.state)


-----------------------------------------------------------------------------
(* Startup of the position manager: initialize(), then the poller *)

\* The account's fills when the process starts: none, or one or two that
\* the positions endpoint already reflects.
StartupFills ==
    { <<>> }
    \cup { << FillRecord(1, 0, MARKET_TICKER, "yes", "buy", c, 30, 1, TRUE) >> :
              c \in Counts }
    \cup { << FillRecord(2, 0, MARKET_TICKER, "yes", "buy", 1, 30, 1, TRUE),
              FillRecord(1, 0, MARKET_TICKER, "yes", "buy", c, 30, 1, TRUE) >> :
              c \in Counts }

\* initialize() has loaded the balance and the positions
\* (_load_positions_from_api: avg_entry_price 0.0) and is about to call
\* _load_recent_fills; call.args keeps the fills of that moment.
Booting ==
    /\ \E startup \in StartupFills :
          /\ fills = startup
          /\ positions = [t \in Tickers |->
                 IF t = MARKET_TICKER /\ startup # <<>>
                 THEN TrackedPosition(SignedSum(
                          [k \in 1..Len(startup) |-> startup[k].fill_id], 1),
                          Frac(0, 1), 0, None)
                 ELSE ZeroPosition]
          /\ call = [fn |-> "initialize", args |-> startup, done |-> FALSE,
                     ret |-> ""]
    /\ last_fill_id = None
    /\ last_fill_ts = None
    /\ state = EmptyQuoteState
    /\ orders = {}
    /\ next_order_id = 1
    /\ loop_pc = "off"
    /\ tick = IdleTick
    /\ poll_pc = "boot"
    /\ poll_resp = <<>>
    /\ apply_log = <<>>
    /\ inflight = NoRequest
    /\ elapsed = 0

InitBoot == config = DefaultConfig /\ Booting

\* initialize() returns and start_polling() creates the poller task.
BootDone(logged) ==
    /\ poll_pc' = "sleep"
    /\ call' = [call EXCEPT !.done = TRUE, !.ret = logged]
    /\ UNCHANGED <<config, positions, state, orders, fills, next_order_id,
                   loop_pc, tick, poll_resp, apply_log, inflight, elapsed>>

\* _load_recent_fills: get_fills(limit=10) answers and the newest record's
\* created_time parses.
LoadRecentFillsOk ==
    /\ poll_pc = "boot"
    /\ LET response == get_fills(None, 10)
       IN  IF response # <<>>
           THEN /\ last_fill_id' = response[1].fill_id
                /\ last_fill_ts' = response[1].created_ts
           ELSE UNCHANGED <<last_fill_id, last_fill_ts>>
    /\ BootDone("ok")

\* ... created_time is missing, or fromisoformat raises after the id was
\* stored ("Could not load recent fills").
LoadRecentFillsNoTime ==
    /\ poll_pc = "boot"
    /\ get_fills(None, 10) # <<>>
    /\ last_fill_id' = get_fills(None, 10)[1].fill_id
    /\ UNCHANGED last_fill_ts
    /\ BootDone("no_time")

\* ... get_fills raises: "except Exception" logs "Could not load recent
\* fills" and initialize() goes on.
LoadRecentFillsError ==
    /\ poll_pc = "boot"
    /\ UNCHANGED <<last_fill_id, last_fill_ts>>
    /\ BootDone("Could not load recent fills")

\* A fill of this session is reported once the process runs.
SessionFill == poll_pc # "boot" /\ ExternalFill

NextBoot ==
    \/ LoadRecentFillsOk \/ LoadRecentFillsNoTime \/ LoadRecentFillsError
    \/ SessionFill
    \/ PollFetch \/ PollProcess

SpecBoot == InitBoot /\ [][NextBoot]_vars

\* The ids of the fills that existed at startup.
StartupIds == { call.args[k].fill_id : k \in 1..Len(call.args) }

\* Initialization leaves the ledger and the subscribers alone.
BootAppliesNothing ==
    [][ (poll_pc = "boot" /\ poll_pc' # "boot")
           => /\ positions' = positions
              /\ state' = state
              /\ apply_log' = <<>> ]_vars

\* C27: initialization applies none of the fills that exist at startup
\* and dispatches none to the subscribers; it sets the watermark to the id
\* and timestamp of the newest existing fill, and no poll ever applies a
\* fill that predates the start of the process.
C27_BootstrapAppliesNothing ==
    /\ BootAppliesNothing
    /\ [][ (poll_pc = "boot" /\ poll_pc' # "boot" /\ fills # <<>>)
              => /\ last_fill_id' = fills[1].fill_id
                 /\ last_fill_ts' = fills[1].created_ts ]_vars
    /\ [](\A k \in 1..Len(apply_log) : apply_log[k] \notin StartupIds)

\* The poller applied a fill that predates the start.
AppliedStartupFill ==
    \E k \in 1..Len(apply_log) : apply_log[k] \in StartupIds


-----------------------------------------------------------------------------
(* stop_polling: cancelling the fill-polling task *)

\* The poller's position after CancelledError is thrown into it, caught
\* as an Exception by poll_fills (returns [], on to the sleep) when the
\* task waits for get_fills.
polling_loop_cancelled_caught(pc) == IF pc = "iterate" THEN "sleep" ELSE "stopped"

\* The poller's position after CancelledError is thrown into it at the
\* await it waits at (get_fills, refresh_balance, sleep): poll_fills'
\* "except Exception" lets it pass, "except asyncio.CancelledError: break"
\* ends the loop.
polling_loop_cancelled(pc) == "stopped"

\* stop_polling has called cancel() and the error is not yet thrown.
CancelPending == call.fn = "stop_polling" /\ call.ret = "cancel_requested"

\* The cancellation has been delivered to the task.
Delivered == call.fn = "stop_polling" /\ call.ret = "delivered"

\* stop_polling: self._polling_task.cancel(), then await the task.
StopPolling ==
    /\ call = NoCall
    /\ poll_pc \in {"sleep", "iterate"}
    /\ call' = [fn |-> "stop_polling", args |-> <<>>, done |-> FALSE,
                ret |-> "cancel_requested"]
    /\ UNCHANGED <<config, positions, last_fill_id, last_fill_ts, state, orders,
                   fills, next_order_id, loop_pc, tick, poll_pc, poll_resp,
                   apply_log, inflight, elapsed>>

\* The event loop resumes the task by throwing CancelledError at its await;
\* a response that was on its way is dropped.
PollCancelled ==
    /\ CancelPending
    /\ poll_pc' = polling_loop_cancelled(poll_pc)
    /\ poll_resp' = <<>>
    /\ call' = [call EXCEPT !.args = <<poll_pc>>, !.ret = "delivered"]
    /\ UNCHANGED <<config, positions, last_fill_id, last_fill_ts, state, orders,
                   fills, next_order_id, loop_pc, tick, apply_log, inflight,
                   elapsed>>

\* The awaited task is finished: "except asyncio.CancelledError: pass",
\* _polling_task = None, return.
StopReturns ==
    /\ Delivered
    /\ ~call.done
    /\ poll_pc = "stopped"
    /\ call' = [call EXCEPT !.done = TRUE]
    /\ UNCHANGED <<config, positions, last_fill_id, last_fill_ts, state, orders,
                   fills, next_order_id, loop_pc, tick, poll_pc, poll_resp,
                   apply_log, inflight, elapsed>>

\* A task marked for cancellation takes no ordinary step.
PollStep == ~CancelPending /\ (PollFetch \/ PollProcess)

NextStop == ExternalFill \/ PollStep \/ StopPolling \/ PollCancelled \/ StopReturns

\* The event loop runs every ready task: the cancelled poller, then the
\* caller waiting for it.
SpecStop ==
    /\ InitLedger
    /\ [][NextStop]_vars
    /\ WF_vars(PollCancelled)
    /\ WF_vars(StopReturns)

\* C28: once the cancellation is delivered to the fill-polling task the
\* task has exited, no fill is applied to the ledger and no subscriber runs
\* afterwards, and stop_polling returns.
C28_PollerCancellation ==
    /\ [](Delivered => poll_pc = "stopped")
    /\ [][ Delivered => /\ positions' = positions
                        /\ apply_log' = apply_log
                        /\ state' = state
                        /\ last_fill_id' = last_fill_id
                        /\ last_fill_ts' = last_fill_ts ]_vars
    /\ []((call.fn = "stop_polling") => <>(call.fn = "stop_polling" /\ call.done))

\* stop_polling returned after cancelling a poll whose response, holding a
\* new fill, was on its way; the fill stays unapplied.
C28_Witness ==
    /\ call.fn = "stop_polling"
    /\ call.done
    /\ call.args = <<"iterate">>
    /\ poll_pc = "stopped"
    /\ Len(fills) = 2
    /\ apply_log = <<1>>


-----------------------------------------------------------------------------
(* The ledger's frame *)

\* What the ledger holds: every position and the watermark.
Ledger == <<positions, last_fill_id, last_fill_ts>>

\* The step is the poller's loop over a response (poll_fills applying
\* fills through _apply_fill).
AppliesFills == poll_pc = "iterate" /\ poll_pc' = "sleep"

\* The step belongs to the control loop or the quoter: a tick, a
\* placement, a cancellation or their failure.
LoopStep == loop_pc' # loop_pc \/ orders' # orders \/ next_order_id' # next_order_id

\* C29: a position's net contracts, average entry price and realized P&L,
\* and the watermark, change only when the Fill Poller applies fills; the
\* control-loop tick, the Risk Gate consulted by the placements,
\* place_quotes, cancel_quotes, update_quotes and on_fill leave them
\* unchanged.
C29_LedgerFrame ==
    /\ [][ (Ledger' # Ledger) => (AppliesFills /\ Len(apply_log') > Len(apply_log)) ]_vars
    /\ [][ LoopStep => (Ledger' = Ledger) ]_vars
    /\ [][ (state' # state /\ ~AppliesFills) => (Ledger' = Ledger) ]_vars

\* Quotes were placed and cancelled around an applied fill, and the ledger
\* shows exactly that fill.
C29_Witness ==
    /\ loop_pc = "sleep"
    /\ next_order_id > 3
    /\ Len(apply_log) = 1
    /\ positions[MARKET_TICKER].last_fill_id = apply_log[1]
    /\ last_fill_id = apply_log[1]
    /\ ~IsEmpty(state)


-----------------------------------------------------------------------------
(* PositionManager.calculate_max_order_size called on its own *)

\* Python's a // b for b > 0: the floor of the quotient.
FloorDiv(a, b) == IF a >= 0 THEN a \div b ELSE -(((-a) + b - 1) \div b)

\* PositionManager.available_balance_cents: the cached balance, 0 before
\* any refresh.
available_balance_cents(balance) == IF balance = None THEN 0 ELSE balance

\* calculate_max_order_size returning the smallest limit as it is.
calculate_max_order_size_nofloor(ticker, side, price_cents, balance) ==
    LET current_pos == positions[ticker]
        max_from_pos_limit ==
            IF side = "yes"
            THEN IF current_pos.position >= 0
                 THEN config.MAX_POSITION_SIZE - current_pos.position
                 ELSE config.MAX_POSITION_SIZE + Abs(current_pos.position)
            ELSE IF current_pos.position <= 0
                 THEN config.MAX_POSITION_SIZE - Abs(current_pos.position)
                 ELSE config.MAX_POSITION_SIZE + current_pos.position
        remaining_exposure == config.MAX_TOTAL_EXPOSURE * 100
                                - SumExposure(positions, Tickers)
        cost_per_contract == IF side = "yes" THEN price_cents
                                             ELSE 100 - price_cents
        max_from_exposure ==
            IF cost_per_contract > 0
            THEN FloorDiv(remaining_exposure, cost_per_contract)
            ELSE config.MAX_POSITION_SIZE
        max_from_balance ==
            IF cost_per_contract > 0
            THEN FloorDiv(available_balance_cents(balance), cost_per_contract)
            ELSE config.MAX_POSITION_SIZE
    IN  Min(max_from_pos_limit, Min(max_from_exposure, max_from_balance))

\* PositionManager.calculate_max_order_size; balance is the cached
\* BalanceInfo.balance the call reads (None before any refresh).
calculate_max_order_size(ticker, side, price_cents, balance) ==
    LET current_pos == positions[ticker]
        max_from_pos_limit ==
            IF side = "yes"
            THEN IF current_pos.position >= 0
                 THEN config.MAX_POSITION_SIZE - current_pos.position
                 ELSE config.MAX_POSITION_SIZE + Abs(current_pos.position)
            ELSE IF current_pos.position <= 0
                 THEN config.MAX_POSITION_SIZE - Abs(current_pos.position)
                 ELSE config.MAX_POSITION_SIZE + current_pos.position
        remaining_exposure == config.MAX_TOTAL_EXPOSURE * 100
                                - SumExposure(positions, Tickers)
        cost_per_contract == IF side = "yes" THEN price_cents
                                             ELSE 100 - price_cents
        max_from_exposure ==
            IF cost_per_contract > 0
            THEN FloorDiv(remaining_exposure, cost_per_contract)
            ELSE config.MAX_POSITION_SIZE
        max_from_balance ==
            IF cost_per_contract > 0
            THEN FloorDiv(available_balance_cents(balance), cost_per_contract)
            ELSE config.MAX_POSITION_SIZE
    IN  Max(0, Min(max_from_pos_limit, Min(max_from_exposure, max_from_balance)))

SizePrices == 0..100            \* price_cents, the two ends included
Balances == {None, 0, 150, 10000}
SizeAvgs == {0, 40}             \* average entry price of the market's position

InitMaxSize ==
    /\ TasksOff
    /\ \E cap \in PositionCaps :
          /\ config = [DefaultConfig EXCEPT !.MAX_POSITION_SIZE = cap]
          /\ \E cur \in (-(cap + MaxOver))..(cap + MaxOver),
                avg \in SizeAvgs, other \in OtherPositions :
                positions = [t \in Tickers |->
                    IF t = MARKET_TICKER
                    THEN TrackedPosition(cur, Frac(avg, 1), 0, None)
                    ELSE TrackedPosition(other, Frac(0, 1), 0, None)]
    /\ \E side \in {"yes", "no"}, price_cents \in SizePrices,
          balance \in Balances :
          call = [fn |-> "calculate_max_order_size",
                  args |-> <<MARKET_TICKER, side, price_cents, balance>>,
                  done |-> FALSE, ret |-> <<>>]

CallMaxOrderSize ==
    /\ call.fn = "calculate_max_order_size"
    /\ ~call.done
    /\ call' = [call EXCEPT !.done = TRUE,
                  !.ret = calculate_max_order_size(call.args[1], call.args[2],
                                                   call.args[3], call.args[4])]
    /\ UNCHANGED <<config, sysvars>>

NextMaxSize == CallMaxOrderSize

SpecMaxSize == InitMaxSize /\ [][NextMaxSize]_vars

\* calculate_max_order_size has returned.
MaxSizeDone == call.fn = "calculate_max_order_size" /\ call.done

\* The three caps, as the call's inputs give them: contracts left to the
\* boundary on the order's side, and the remaining exposure and the
\* available balance in units of the contract's cost.
SizeCost == IF call.args[2] = "yes" THEN call.args[3] ELSE 100 - call.args[3]

BoundaryDistance ==
    IF call.args[2] = "yes"
    THEN config.MAX_POSITION_SIZE - positions[MARKET_TICKER].position
    ELSE positions[MARKET_TICKER].position + config.MAX_POSITION_SIZE

RemainingExposure ==
    config.MAX_TOTAL_EXPOSURE * 100
       - (exposure_cents(positions[MARKET_TICKER])
            + exposure_cents(positions[OTHER_TICKER]))

AvailableBalance == IF call.args[4] = None THEN 0 ELSE call.args[4]

\* C30: max_size returns a non-negative integer, and where a contract costs
\* something it is the minimum, floored at 0, of the distance from the
\* signed position to +MAX_POSITION_SIZE (YES) or -MAX_POSITION_SIZE (NO),
\* the remaining exposure divided by the cost per contract and the
\* available balance divided by the cost per contract, the cost being
\* price_cents for YES and 100 - price_cents for NO.
C30_MaxSize ==
    MaxSizeDone =>
        /\ call.ret \in Nat
        /\ (SizeCost > 0 =>
              call.ret = Max(0, Min(BoundaryDistance,
                                    Min(RemainingExposure \div SizeCost,
                                        AvailableBalance \div SizeCost))))

\* A short of 31 at average 40 against a cap of 30, a NO order at 60: the
\* position cap is below zero and the answer is 0.
C30_Witness ==
    /\ MaxSizeDone
    /\ config.MAX_POSITION_SIZE = 30
    /\ positions[MARKET_TICKER].position = -31
    /\ positions[MARKET_TICKER].avg_entry_price = Frac(40, 1)
    /\ call.args[2] = "no"
    /\ call.args[3] = 60
    /\ call.args[4] = 10000
    /\ BoundaryDistance = -1
    /\ call.ret = 0


-----------------------------------------------------------------------------
(* should_requote as a decision function *)

-----------------------------------------------------------------------------
(* The watermark *)

\* The step is one run of poll_fills' loop over a response.
PollReturns == poll_pc = "iterate" /\ poll_pc' = "sleep"

\* A poll that applied a fill leaves the watermark at the first fill it
\* applied, the newest of the response.
WatermarkAdvances ==
    [][ (PollReturns /\ Len(apply_log') > Len(apply_log))
          => /\ last_fill_id' = apply_log'[Len(apply_log) + 1]
             /\ last_fill_id' = poll_resp[1].fill_id
             /\ last_fill_ts' = poll_resp[1].created_ts ]_vars

\* A poll that applied nothing leaves the watermark and the ledger alone.
WatermarkKept ==
    [][ (PollReturns /\ apply_log' = apply_log)
          => /\ last_fill_id' = last_fill_id
             /\ last_fill_ts' = last_fill_ts
             /\ positions' = positions ]_vars

\* The watermark's timestamp never decreases.
WatermarkMonotone ==
    [][ (last_fill_ts # None) => (last_fill_ts' # None /\ last_fill_ts' >= last_fill_ts) ]_vars

\* C32: after a poll that applied at least one new fill the watermark is
\* the id and timestamp of the newest fill of that response; after a poll
\* that found no new fill the watermark and the ledger are unchanged; the
\* watermark's timestamp never decreases.
C32_WatermarkRule == WatermarkAdvances /\ WatermarkKept /\ WatermarkMonotone


-----------------------------------------------------------------------------
(* The two legs of place_quotes *)

\* The gate answers for the legs of the placement t, on the ledger as it is.
BidAllowed(t) ==
    /\ can_place_order(MARKET_TICKER, "yes", config.QUOTE_SIZE, t.bid_price)[1]
    /\ place_order_allowed("buy", "yes", config.QUOTE_SIZE, t.bid_price,
                           MARKET_TICKER)

AskAllowed(t) ==
    /\ can_place_order(MARKET_TICKER, "no", config.QUOTE_SIZE,
                       100 - t.ask_price)[1]
    /\ place_order_allowed("sell", "yes", config.QUOTE_SIZE, t.ask_price,
                           MARKET_TICKER)

\* The step enters place_quotes: the tick's quote prices are computed.
EntersPlaceQuotes ==
    /\ loop_pc \in {"sleep", "cancel_requote"}
    /\ tick'.bid_price # None

\* C33: in place_quotes the bid is gated and attempted first; whether the
\* bid was blocked by the Risk Gate, raised or was placed, the ask is gated
\* next and attempted if allowed; a failed leg never makes place_quotes
\* raise.
C33_LegIndependence ==
    /\ [][ EntersPlaceQuotes =>
              IF BidAllowed(tick') THEN loop_pc' = "place_bid"
              ELSE IF AskAllowed(tick') THEN loop_pc' = "place_ask"
              ELSE loop_pc' = "sleep" ]_vars
    /\ [][ (loop_pc = "place_bid" /\ loop_pc' # "place_bid") =>
              IF AskAllowed(tick') THEN loop_pc' = "place_ask"
              ELSE loop_pc' \in {"cancel_lone_bid", "sleep"} ]_vars
    /\ [][ (loop_pc = "place_ask" /\ loop_pc' # "place_ask") =>
              loop_pc' \in {"cancel_lone_bid", "cancel_lone_ask", "sleep"} ]_vars

\* The bid placement raised, the ask was placed after it and rests alone.
C33_Witness ==
    /\ loop_pc = "cancel_lone_ask"
    /\ tick.bid_order_id = None
    /\ tick.ask_order_id = 1
    /\ orders = { Order(1, "sell", tick.ask_price) }
    /\ fills = <<>>
    /\ BidAllowed(tick)


-----------------------------------------------------------------------------
(* The exposure the gate attributes to the ask leg *)

\* can_add_position, "Check 2: Calculate new exposure": the exposure of the
\* position the order leads to.
new_exposure_cents(ticker, side, contracts, price_cents) ==
    LET delta         == IF side = "yes" THEN contracts ELSE -contracts
        new_position  == positions[ticker].position + delta
        new_contracts == Abs(new_position)
    IN  IF new_position > 0 THEN new_contracts * price_cents
        ELSE IF new_position < 0 THEN new_contracts * (100 - price_cents)
        ELSE 0

\* place_quotes is under way with the ask price tick.ask_price; the
\* position its ask leads to.
GatesAsk == loop_pc \in {"place_bid", "place_ask"} /\ tick.ask_price # None

AskNewPos == positions[MARKET_TICKER].position - config.QUOTE_SIZE

\* The exposure the gate computes for the ask as place_quotes passes it:
\* side "no", price_cents = 100 - ask_price.
AskGateExposure ==
    new_exposure_cents(MARKET_TICKER, "no", config.QUOTE_SIZE,
                       100 - tick.ask_price)

\* C34: when place_quotes gates its ask leg and the resulting position is
\* short, the exposure the Risk Gate compares against the cap for the
\* ticker is |new_pos| * (100 - ask), the maximum loss of a short-YES
\* position entered at ask.
C34_AskExposure ==
    (GatesAsk /\ AskNewPos < 0)
        => AskGateExposure = Abs(AskNewPos) * (100 - tick.ask_price)

\* What the gate computes instead: |new_pos| * ask.
AskExposureInverted ==
    (GatesAsk /\ AskNewPos < 0)
        => AskGateExposure = Abs(AskNewPos) * tick.ask_price


-----------------------------------------------------------------------------
(* Orders resting on the exchange and the QuoteState *)

\* The ids of this account's resting orders, and those of one action.
RestingIds == { o.order_id : o \in orders }

Resting(action) == { o \in orders : o.action = action }

\* C35: whenever no quoter operation is in progress (the loop sleeps between
\* two ticks), every order this system placed that still rests on the
\* exchange has its id recorded in QuoteState, so at most one bid and at
\* most one ask rest; also after an update_quotes whose cancel_quotes step
\* failed.
C35_NoOrphanedOrders ==
    loop_pc = "sleep" =>
        /\ RestingIds \subseteq quote_order_ids(state)
        /\ Cardinality(Resting("buy")) <= 1
        /\ Cardinality(Resting("sell")) <= 1


-----------------------------------------------------------------------------
(* Fills dispatched while place_quotes is under way *)

\* The orders whose fill the poller has handed to the subscribers.
DispatchedOrders == { FillById(apply_log[k]).order_id : k \in 1..Len(apply_log) }

\* C36: QuoteState never records as resting an order whose fill the poller
\* has already dispatched; a leg whose fill reached on_fill, also while
\* place_quotes was awaiting the other leg's placement, is absent from
\* QuoteState once place_quotes and the dispatch have completed.
C36_NoStaleFilledLeg ==
    /\ quote_order_ids(state) \cap DispatchedOrders = {}
    /\ (loop_pc = "sleep" /\ poll_pc = "sleep")
          => \A o \in DispatchedOrders :
                o # state.bid_order_id /\ o # state.ask_order_id


-----------------------------------------------------------------------------
(* The ledger against the exchange's record of the account *)

\* FILL_POLL_LIMIT: config.py's 50, and 1 so that two fills between two
\* polls are a burst beyond the limit.
PollLimits == {1, 50}

InitTrack ==
    /\ \E limit \in PollLimits :
          config = [DefaultConfig EXCEPT !.FILL_POLL_LIMIT = limit]
    /\ Booting

\* A fill executes after _load_positions_from_api answered and before
\* _load_recent_fills asks for the fills.
BootFill == poll_pc = "boot" /\ ExternalFill

NextTrack ==
    \/ BootFill
    \/ LoadRecentFillsOk \/ LoadRecentFillsNoTime \/ LoadRecentFillsError
    \/ SessionFill
    \/ PollFetch \/ PollProcess

SpecTrack == InitTrack /\ [][NextTrack]_vars

\* The account's net position on the ticker as the exchange has it: every
\* executed fill counted once.
TrueNet == SignedSum([k \in 1..Len(fills) |-> fills[k].fill_id], 1)

\* The poll that returns was fetched after the last exchange fill: its
\* response starts with the newest fill of the account, or the account has
\* none.
SawNewest ==
    \/ fills = <<>> /\ poll_resp = <<>>
    \/ fills # <<>> /\ poll_resp # <<>> /\ poll_resp[1] = fills[1]

CaughtUp == poll_pc = "iterate" /\ poll_pc' = "sleep" /\ SawNewest

\* C37: whenever the poller has caught up (a poll has completed after the
\* last exchange fill on the ticker) the ledger's net_contracts is the
\* exchange's net position: no fill is lost or counted twice, a fill
\* between the bootstrap position load and the bootstrap watermark fetch
\* and a burst of more than FILL_POLL_LIMIT fills between two polls
\* included.
C37_LedgerTracksExchange ==
    [][ CaughtUp => positions'[MARKET_TICKER].position = TrueNet ]_vars


-----------------------------------------------------------------------------
(* A static market *)

\* The skew the next tick computes from the ledger.
LedgerSkew == positions[MARKET_TICKER].position * config.INVENTORY_SKEW_PER_CONTRACT

\* The loop sleeps after a tick whose update_quotes placed both legs for
\* the snapshot m; both orders still rest, no fill has occurred and the
\* net position is the one the tick saw.
PlacedBothFor(m) ==
    /\ loop_pc = "sleep"
    /\ has_active_quotes(state)
    /\ quote_order_ids(state) \subseteq RestingIds
    /\ fills = <<>>
    /\ state.last_midpoint2 = m[1] + m[2]
    /\ <<state.bid_price, state.ask_price>> = calculate_quotes(m[1], m[2], LedgerSkew)

\* C38: for every active market with 1 <= best_bid < best_ask <= 99, after
\* a tick in which update_quotes placed both legs, with the snapshot and
\* the net position unchanged and no fill, the next tick's should_requote
\* returns false: the loop does not replace its quotes on every tick of a
\* static market.
C38_QuoteStability ==
    \A m \in Markets :
        (1 <= m[1] /\ m[1] < m[2] /\ m[2] <= 99 /\ PlacedBothFor(m))
            => should_requote(state, m[1], m[2], LedgerSkew)[1] = FALSE

\* The static markets in which the placed quotes do stay.
StableWhenInsideTouch ==
    \A m \in Markets :
        ( /\ 1 <= m[1] /\ m[1] < m[2] /\ m[2] <= 99 /\ PlacedBothFor(m)
          /\ state.bid_price <= m[1] /\ state.ask_price >= m[2] )
            => should_requote(state, m[1], m[2], LedgerSkew)[1] = FALSE


-----------------------------------------------------------------------------
(* Subscribers that raise *)

\* _apply_fill, "except Exception as e: logger.error('Fill callback
\* error')" with the handler missing: the exception leaves _apply_fill and
\* ends the poll.
callback_raised_propagates(acc) == [acc EXCEPT !.raised = TRUE]

\* _apply_fill, "except Exception as e: logger.error('Fill callback
\* error')": the loop over the callbacks goes on.
callback_raised(acc) == acc

\* What a subscriber that returns does: Quoter.on_fill clears the filled
\* leg, _on_fill_for_ui touches nothing the quoter or the ledger reads.
callback_effect(k, st, fill) == IF k = 1 THEN on_fill(st, fill) ELSE st

RECURSIVE notify_callbacks(_, _, _, _)
\* _apply_fill, "for callback in self._fill_callbacks", from callback k on;
\* raising holds the <<fill_id, k>> whose call raises (before it changes
\* anything).
notify_callbacks(fill, k, acc, raising) ==
    IF acc.raised \/ k > Len(fill_callbacks) THEN acc
    ELSE IF <<fill.fill_id, k>> \in raising
    THEN notify_callbacks(fill, k + 1,
             callback_raised(
                 [acc EXCEPT !.events = Append(@,
                      FillEvent("raised", fill,
                                acc.positions[fill.ticker].position))]),
             raising)
    ELSE notify_callbacks(fill, k + 1,
             [acc EXCEPT !.state = callback_effect(k, @, fill),
                         !.events = Append(@,
                              FillEvent(fill_callbacks[k], fill,
                                        acc.positions[fill.ticker].position))],
             raising)

RECURSIVE poll_loop_raising(_, _, _, _)
\* poll_loop with subscribers that may raise.
poll_loop_raising(fills_data, i, acc, raising) ==
    IF acc.raised \/ i > Len(fills_data) THEN acc
    ELSE LET fill == fills_data[i]
         IN  IF ~fill.parse_ok
             THEN [acc EXCEPT !.raised = TRUE]
             ELSE IF last_fill_id # None /\ fill.fill_id = last_fill_id
             THEN acc
             ELSE LET before == acc.positions[fill.ticker]
                      after  == apply_fill(before, fill)
                  IN  poll_loop_raising(fills_data, i + 1,
                          notify_callbacks(fill, 1,
                              [ positions |-> [acc.positions EXCEPT
                                                  ![fill.ticker] = after],
                                state     |-> acc.state,
                                new_fills |-> Append(acc.new_fills, fill),
                                raised    |-> FALSE,
                                events    |-> Append(acc.events,
                                    FillEvent("_apply_fill", fill,
                                              after.position)) ],
                              raising),
                          raising)

NotifyLengths == {1, 2}         \* fills in the response

\* A response is in, both quotes are recorded (orders 1 and 2), and
\* call.args[1] says which subscriber calls will raise.
InitNotify ==
    /\ config = DefaultConfig
    /\ positions = [t \in Tickers |-> ZeroPosition]
    /\ last_fill_ts = None
    /\ last_fill_id = None
    /\ state = Legs(45, 55, 100, TRUE, TRUE)
    /\ orders = {}
    /\ next_order_id = 3
    /\ loop_pc = "off"
    /\ tick = IdleTick
    /\ poll_pc = "iterate"
    /\ apply_log = <<>>
    /\ inflight = NoRequest
    /\ elapsed = 0
    /\ \E n \in NotifyLengths :
          /\ fills \in Responses(n)
          /\ poll_resp = fills
          /\ \E raising \in SUBSET ((1..n) \X (1..Len(fill_callbacks))) :
                call = [fn |-> "poll_fills", args |-> <<raising>>,
                        done |-> FALSE, ret |-> <<>>]

\* poll_fills from the loop over the response to its return.
PollNotify ==
    /\ call.fn = "poll_fills"
    /\ ~call.done
    /\ poll_pc = "iterate"
    /\ LET r == poll_loop_raising(poll_resp, 1,
                    [ positions |-> positions, state |-> state,
                      new_fills |-> <<>>, raised |-> FALSE,
                      events |-> <<>> ], call.args[1])
       IN  /\ positions' = r.positions
           /\ state' = r.state
           /\ apply_log' = apply_log \o [k \in 1..Len(r.new_fills) |->
                                             r.new_fills[k].fill_id]
           /\ IF ~r.raised /\ r.new_fills # <<>>
              THEN /\ last_fill_id' = r.new_fills[1].fill_id
                   /\ last_fill_ts' = r.new_fills[1].created_ts
              ELSE UNCHANGED <<last_fill_id, last_fill_ts>>
           /\ call' = [call EXCEPT !.done = TRUE, !.ret = r.events]
    /\ poll_pc' = "sleep"
    /\ UNCHANGED <<config, orders, fills, next_order_id, loop_pc, tick,
                   poll_resp, inflight, elapsed>>

NextNotify == PollNotify

SpecNotify == InitNotify /\ [][NextNotify]_vars

\* C39: a subscriber that raises does not keep the other subscribers from
\* receiving the same fill, does not undo the ledger update for that fill,
\* and does not stop the later fills of the poll from being applied or the
\* watermark from advancing.
C39_SubscriberIsolation ==
    (call.fn = "poll_fills" /\ call.done) =>
        LET events == call.ret
            width  == 1 + Len(fill_callbacks)
            n      == Len(poll_resp)
        IN  /\ apply_log = [k \in 1..n |-> poll_resp[k].fill_id]
            /\ positions[MARKET_TICKER].position = NetAfter(poll_resp, n)
            /\ last_fill_id = poll_resp[1].fill_id
            /\ last_fill_ts = poll_resp[1].created_ts
            /\ Len(events) = width * n
            /\ \A k \in 1..n :
                  /\ events[width * (k - 1) + 1] =
                        FillEvent("_apply_fill", poll_resp[k],
                                  NetAfter(poll_resp, k))
                  /\ \A j \in 1..Len(fill_callbacks) :
                        events[width * (k - 1) + 1 + j] =
                            FillEvent(IF <<poll_resp[k].fill_id, j>> \in call.args[1]
                                      THEN "raised" ELSE fill_callbacks[j],
                                      poll_resp[k], NetAfter(poll_resp, k))

\* Quoter.on_fill raised for the newer fill (of the bid): the UI subscriber
\* still got it, the older fill (of the ask) was applied and dispatched
\* after it, and the watermark is at the newer fill.
C39_Witness ==
    /\ call.fn = "poll_fills"
    /\ call.done
    /\ Len(poll_resp) = 2
    /\ call.args[1] = { <<2, 1>> }
    /\ poll_resp[1].order_id = 1
    /\ poll_resp[2].order_id = 2
    /\ call.ret[2].event = "raised"
    /\ call.ret[3].event = "MarketMakerBot._on_fill_for_ui"
    /\ call.ret[5].event = "Quoter.on_fill"
    /\ state.bid_order_id = 1
    /\ state.ask_order_id = None
    /\ apply_log = <<2, 1>>
    /\ last_fill_id = 2


\* C40: in every state reached through place_quotes, cancel_quotes,
\* update_quotes and on_fill, bid_price is present if and only if
\* bid_order_id is present, and ask_price is present if and only if
\* ask_order_id is present.
C40_QuoteStateWellFormed ==
    /\ (state.bid_price # None) <=> (state.bid_order_id # None)
    /\ (state.ask_price # None) <=> (state.ask_order_id # None)

\* place_quotes recorded the ask alone (the bid was not placed): the ask has
\* its id and its price, the bid has neither, and no fill has been applied.
C40_Witness ==
    /\ loop_pc = "sleep"
    /\ apply_log = <<>>
    /\ state.ask_order_id # None
    /\ state.ask_price # None
    /\ state.bid_order_id = None
    /\ state.bid_price = None
    /\ state.last_midpoint2 # None

=============================================================================
